---- MODULE Spec2Model ----
(***************************************************************************)
(* Model of the session pipeline of gemini-showcase: the Lyria connection  *)
(* pool (services/lyria_pool.py), the orchestrator's session lifecycle and *)
(* its frame-scheduler loops (services/orchestrator.py), and the request   *)
(* handlers that call them (main.py).                                      *)
(*                                                                         *)
(* asyncio is cooperative: a coroutine runs without interruption from one  *)
(* suspending await to the next.  A request handler is modelled by one     *)
(* action per such stretch; its pc names the await at which it is          *)
(* suspended.  The frame loops are modelled statement by statement: while  *)
(* a loop is between two suspensions it holds the event loop (Idle is      *)
(* false) and nothing else runs.  Calls that are declared async but never  *)
(* suspend (get_video_info, extract_frame and compare_frames block in      *)
(* yt-dlp, ffmpeg and OpenCV) are part of the stretch that calls them.     *)
(*                                                                         *)
(* The code reads the wall clock only to subtract an anchor from it        *)
(* (datetime.now() - playback_start_time).  The model keeps that           *)
(* difference, real_time_elapsed, in place of the anchor: for the session  *)
(* record it is datetime.now() - session["playback_start_time"], for a     *)
(* frame loop datetime.now() - playback_start_time of its local variable,  *)
(* and a sleep is kept as the time it still has to run.                    *)
(***************************************************************************)
EXTENDS Integers, Sequences, FiniteSets, TLC

\* ------------------------------------------------------------------ bounds
PoolSize == 1
BootSize == 2
MaxConns == 3
MaxRuns == 3
SpecRuns == 2
SchedRuns == 1
MaxReq == 2
MaxChunks == 1
MaxAudio == 3
MaxFaults == 1
MaxShutdowns == 2
MaxSeeks == 2
MaxPushes == 2
MaxPrompts == 2
MaxDirectives == 6
MaxAnalyses == 4
SchedReq == 1
MaxWait == 1
MaxSamples == 12
MaxLive == 2
MaxTime == 120
TickLen == 5

Sessions == {"a", "b"}
NoSession == "none"
Conns == 1..MaxConns
Runs == 1..MaxRuns
Slots == 1..MaxReq
SchedSlots == 1..SchedReq

\* A video as get_video_info reports it: only is_live and duration steer the code.
Recorded == [is_live |-> FALSE, duration |-> 100]
Live == [is_live |-> TRUE, duration |-> 0]
Videos == {Recorded, Live}
\* A shorter recorded video, for the runs in which a client seeks.
Short == [is_live |-> FALSE, duration |-> 50]
\* A recorded video of two frames, for the runs in which a client sends prompts.
Brief == [is_live |-> FALSE, duration |-> 30]

\* The offsets a client seeks to, and the scores compare_frames returns (in percent).
SeekTargets == {20, 35}
Diffs == {5, 20, 60}

\* A prompt text is kept as the sequence of its fragments.  Titled is a fragment that
\* matches one of the patterns sanitize_prompt_for_lyria removes (titled '...'); the
\* separators generate_lyria_prompt puts between the parts are not kept.
Titled == "titled 'Song'"
Removed == {Titled}
Texts == {<<"faster">>, <<"like", Titled>>}

\* Video titles, and analysis texts that name a mood, a tempo and an intensity.
Titles == {"", "Artist - Song"}
Notes == {<<"calm", "slow", "fading">>, <<"dramatic", "quick", "climax">>}

\* Analysis texts that name several moods, tempos or intensities, or none, in words
\* of either case and inside longer words.
Reports ==
    {<<"calm", "Dramatic">>, <<"dark", "energetic">>, <<"suspenseful">>,
     <<"slow", "breakfast">>, <<"slow">>, <<"diminishing", "peak", "crescendo">>,
     <<"fading", "climax">>, <<"peaceful", "fading">>, <<"scene">>}

\* ------------------------------------------------------- program constants
first_frame_offset == 10
frame_interval == 10
processing_buffer == 5
frame_diff_threshold == 20
livestream_interval == 5
max_recent_updates == 3
max_user_prompts == 5
\* what compare_frames returns when it fails (1.0), in percent
assumed_difference == 100

VARIABLES
    pool,               \* LyriaConnectionPool.pool: list of connections
    conn,               \* the LyriaConnection objects: their fields and their websocket
    active_connections, \* LyriaConnectionPool.active_connections: session id -> connection
    bg,                 \* replacement _create_connection tasks in flight
    is_initialized,     \* the is_initialized flags of the pool and of the orchestrator
    startup,            \* orchestrator.initialize and the connection setups it gathers
    teardown,           \* orchestrator.shutdown and the pool shutdown it gathers
    given,              \* history: the calls made on the CompositionContext under test
    active_sessions,    \* MusicGenerationOrchestrator.active_sessions: session id -> record
    run,                \* the session records (and, before the record exists, relay_audio's closure)
    task,               \* the _receive_audio tasks, named by the run whose start created them
    req,                \* the request handlers in flight
    faults,             \* environment: the network and backend failures so far
    sched,              \* the _process_video_frames tasks, one per session record
    ctx,                \* the CompositionContext of each run
    sent,               \* prompts written to each connection's websocket by update_prompt
    last_frame,         \* FrameExtractor.last_frame: 0 for None, else the run whose frame it is
    sampled,            \* history: the offsets of the frames extract_frame returned, per run,
                        \* since the run's timeline was last anchored (by its loop or a seek)
    hist                \* history: seeks and caught exceptions, per run

\* The variables no request handler and no background task writes.
bootVars == <<is_initialized, startup, teardown, given>>
poolVars == <<pool, conn, active_connections, bg, is_initialized, startup, teardown, given>>
orchVars == <<active_sessions, run, task, req>>
frameVars == <<sched, sent, sampled, hist>>
vars == <<pool, conn, active_connections, bg, is_initialized, startup, teardown, given,
          active_sessions,
          run, task, req, faults, sched, ctx, sent, last_frame, sampled, hist>>

\* ------------------------------------------------------------ LyriaConnection
\* ws_open / ws_gen describe the websocket self.ws refers to: whether it is open, and
\* the runs whose start() sent "play" on it (the generations whose audio it carries).
NewConnection ==
    [status |-> "disconnected", is_active |-> FALSE, session_id |-> NoSession,
     on_audio_data |-> 0, recv_task |-> 0, ws_open |-> FALSE, ws_gen |-> {}]

ReadyConnection == [NewConnection EXCEPT !.status = "ready", !.ws_open = TRUE]

NoTask == [st |-> "none", conn |-> 0, gen |-> {}]

\* A _receive_audio task is alive while it iterates over a websocket that is open:
\* "cur" reads the websocket its connection still refers to, "stale" one that connect()
\* has meanwhile replaced without closing it.
TaskAlive(t) == t # 0 /\ task[t].st \in {"cur", "stale"}

\* LyriaConnection.stop: is_active = False, cancel the stored receive task.
\* recv_task is self._recv_task while that task is not done; a done task left in
\* self._recv_task behaves as None does (cancel() does nothing, awaiting it does not
\* suspend), and is written 0 here.
ConnStopped(cn, c) == [cn EXCEPT ![c].is_active = FALSE, ![c].recv_task = 0]

\* The stored receive task of c, unless it ends with the websocket of c.
StoredTask(tk, c, t) == IF t # 0 /\ tk[t].st = "cur" /\ tk[t].conn = c THEN 0 ELSE t

DoneTask == [st |-> "done", conn |-> 0, gen |-> {}]

TaskCancelled(tk, t) == IF t # 0 /\ tk[t].st \in {"cur", "stale"} THEN [tk EXCEPT ![t] = DoneTask] ELSE tk

\* The websocket self.ws of c is closed: the tasks iterating over it end.
WsClosedTasks(tk, c) ==
    [t \in Runs |-> IF tk[t].st = "cur" /\ tk[t].conn = c THEN DoneTask ELSE tk[t]]

\* connect() stores a new websocket in self.ws: a task still iterating over the old,
\* open websocket keeps reading it.
WsReplacedTasks(tk, cn, c) ==
    [t \in Runs |-> IF tk[t].st = "cur" /\ tk[t].conn = c
                    THEN [tk[t] EXCEPT !.st = "stale", !.gen = cn[c].ws_gen]
                    ELSE tk[t]]

\* ------------------------------------------------------------ pool helpers
InPool(c) == \E k \in 1..Len(pool) : pool[k] = c

\* acquire_connection's test of one connection (307).
AvailableIn(cn, c) ==
    cn[c].status = "ready" /\ ~cn[c].is_active /\ cn[c].session_id = NoSession

Available(c) == AvailableIn(conn, c)

HasAvailable(cn) == \E k \in 1..Len(pool) : AvailableIn(cn, pool[k])

FirstAvailable(cn) ==
    pool[CHOOSE k \in 1..Len(pool) :
            AvailableIn(cn, pool[k]) /\ \A j \in 1..(k - 1) : ~AvailableIn(cn, pool[j])]

\* orchestrator.shutdown has not been called (pc "none"), is stopping the assigned
\* connections of the sessions in left ("stops"), is closing the pool's connections
\* from index k on ("closes"), or has returned ("done"); gone counts the connection
\* objects that pool.clear() has dropped, calls the shutdown calls that returned.
NoTeardown == [pc |-> "none", left |-> {}, k |-> 0, gone |-> 0, calls |-> 0]

\* The connection objects made so far: those of the pool and those dropped from it.
Made == Len(pool) + teardown.gone

\* _create_connection appends a connection object that did not exist before.
FreshConn == Made + 1

CanCreate == Made < MaxConns

\* ------------------------------------------------------------ the event loop
NoSched ==
    [pc |-> "none", playback_offset |-> 0, real_time_elapsed |-> 0,
     previous_frame |-> FALSE, wait_time |-> 0, waited |-> 0, compared |-> FALSE,
     difference |-> 0]

NewSched == [NoSched EXCEPT !.pc = "created"]

\* A frame loop is suspended at an await (or not running at all) in these positions;
\* in every other position it is executing and holds the event loop.
Suspended == {"none", "created", "sleep", "backoff", "delta", "analyze", "push", "done"}

Idle == \A r \in Runs : sched[r].pc \in Suspended

\* ------------------------------------------------------------ runs and requests
NoRun ==
    [stage |-> "none", is_active |-> FALSE, conn |-> 0,
     video |-> [is_live |-> FALSE, duration |-> 0],
     audio_chunks |-> <<>>, delivered |-> <<>>,
     has_offset |-> FALSE, playback_offset |-> 0, real_time_elapsed |-> 0,
     stopped_at |-> "none"]

FreshRun == CHOOSE r \in Runs : run[r].stage = "none" /\ \A q \in 1..(r - 1) : run[q].stage # "none"

IdleReq == [op |-> "idle", sid |-> NoSession, pc |-> "idle", c |-> 0, r |-> 0,
            v |-> [is_live |-> FALSE, duration |-> 0]]

\* A start_music_generation call is a "restart" when it found a record for its session
\* id (65), a "start" when it found none.
StartOps == {"start", "restart"}

\* The start calls that have not yet created their relay_audio closure.
Acquiring == {i \in Slots : req[i].op \in StartOps /\ req[i].pc \notin {"a_meta", "a_send"}}

Free(i) == req[i].pc \in {"idle", "returned", "raised"}

\* A new request is served when the event loop is free and the server has not begun
\* its shutdown (main.py 58-61 runs after the server stopped serving); it takes the
\* lowest free handler slot.
Takes(i) == Idle /\ teardown.pc = "none" /\ Free(i) /\ \A j \in 1..(i - 1) : ~Free(j)

\* A handler that has returned, or raised, leaves only that outcome behind.
Returned(i) == [req EXCEPT ![i] = [IdleReq EXCEPT !.pc = "returned"]]
Raised(i) == [req EXCEPT ![i] = [IdleReq EXCEPT !.pc = "raised"]]

\* The outcome of a call that raised an error which names its cause ("Session ... not
\* found", a failed connection setup): the operation that failed and the id it was
\* called with.
Rejected(i, op, s) == [req EXCEPT ![i] = [IdleReq EXCEPT !.pc = "raised", !.op = op, !.sid = s]]

\* CompositionContext.__init__ (28-43); volume, instruments and genre of current_state
\* are never written and are left out.
CompositionContext(video_title) ==
    [video_title |-> video_title,
     current_state |-> [mood |-> "neutral", tempo |-> "moderate", intensity |-> "medium"],
     user_prompts |-> <<>>, recent_updates |-> <<>>]

NewCtx == CompositionContext("")

\* No call has been made on the context under test: made tells that it exists,
\* prompts and analyses are the arguments of its add_user_prompt and
\* update_from_analysis calls so far, asked and out the argument and the result of a
\* generate_lyria_prompt call made since the last of them.
NoGiven == [made |-> FALSE, prompts |-> <<>>, analyses |-> <<>>, asked |-> <<>>, out |-> <<>>]

NoHist == [seeks |-> 0, errors |-> 0, seek_p |-> 0, seek_n |-> 0]

\* ------------------------------------------------------------ acquire_connection
\* acquire_connection's assignment (319-320) followed by the orchestrator's
\* lyria_connection.on_audio_data = relay_audio (118), for the closure of run r.
Assigned(cn, c, s, r) == [cn EXCEPT ![c].session_id = s, ![c].on_audio_data = r]

Closure(v) == [NoRun EXCEPT !.stage = "closure", !.video = v]

\* start_music_generation from get_video_info (79) to its next suspension, given the
\* connections cn, the assignment map ac and the records rn that the stretch before
\* left.  get_video_info raises, or acquire_connection (299-325) runs: it raises if
\* the pool is not initialized; with a free connection it returns without suspending
\* and the call runs on to its await of analyze_video_metadata (123); with none it
\* suspends in _create_connection (313).
StartFrom(i, s, op, v, cn, ac, rn) ==
    \/ /\ faults < MaxFaults
       /\ faults' = faults + 1
       /\ conn' = cn
       /\ active_connections' = ac
       /\ run' = rn
       /\ ctx' = ctx
       /\ req' = Raised(i)
    \/ /\ faults' = faults
       /\ IF ~is_initialized.pool
          THEN \* acquire_connection raises (301-302)
               /\ conn' = cn
               /\ active_connections' = ac
               /\ run' = rn
               /\ ctx' = ctx
               /\ req' = Rejected(i, "acquire", s)
          ELSE IF HasAvailable(cn)
          THEN LET c == FirstAvailable(cn)
                   r == FreshRun
               IN
               /\ conn' = Assigned(cn, c, s, r)
               /\ active_connections' = [ac EXCEPT ![s] = c]
               /\ run' = [rn EXCEPT ![r] = Closure(v)]
               /\ ctx' = [ctx EXCEPT ![r] = NewCtx]
               /\ req' = [req EXCEPT ![i] = [op |-> op, sid |-> s, pc |-> "a_meta",
                                             c |-> c, r |-> r, v |-> v]]
          ELSE /\ conn' = cn
               /\ active_connections' = ac
               /\ run' = rn
               /\ ctx' = ctx
               /\ req' = [req EXCEPT ![i] = [op |-> op, sid |-> s, pc |-> "a_create",
                                             c |-> 0, r |-> 0, v |-> v]]

\* ------------------------------------------------------------ release_connection
\* The synchronous stretch of a coroutine that enters LyriaConnection.stop(),
\* LyriaConnection.close() or ws.close(), up to the await at which it suspends.
\* Each yields [conn, task, pc].
EnterWsClose(cn, tk, c) ==
    [conn |-> [cn EXCEPT ![c].ws_open = FALSE, ![c].ws_gen = {},
                         ![c].recv_task = StoredTask(tk, c, @)],
     task |-> WsClosedTasks(tk, c),
     pc |-> "a_ws_close"]

EnterClose(cn, tk, c) ==
    IF cn[c].recv_task # 0
    THEN [conn |-> ConnStopped(cn, c), task |-> TaskCancelled(tk, cn[c].recv_task),
          pc |-> "a_close_stop"]
    ELSE EnterWsClose(ConnStopped(cn, c), tk, c)

EnterStop(cn, tk, c) ==
    IF cn[c].recv_task # 0
    THEN [conn |-> ConnStopped(cn, c), task |-> TaskCancelled(tk, cn[c].recv_task),
          pc |-> "a_stop"]
    ELSE EnterClose(ConnStopped(cn, c), tk, c)

cleanup_session(tbl, s) == [tbl EXCEPT ![s] = 0]

\* session["stopped_at"] = datetime.now().timestamp() (583).  The field is read
\* nowhere; it is kept as "none" (no such key), "now" (the current instant) or "past"
\* (an earlier instant).
Stopped(rn, r) == [rn EXCEPT ![r].stopped_at = "now"]

\* What follows stop_music_generation in its caller: the REST handler returns (stop),
\* the disconnect handler calls cleanup_session and returns (disconnect), a
\* restarting start_music_generation calls cleanup_session and goes on (restart).
AfterStop(i, s, op, v, cn, ac, rn) ==
    IF op = "restart"
    THEN /\ active_sessions' = cleanup_session(active_sessions, s)
         /\ StartFrom(i, s, op, v, cn, ac, rn)
    ELSE /\ active_sessions' = IF op = "stop" THEN active_sessions
                                ELSE cleanup_session(active_sessions, s)
         /\ conn' = cn
         /\ active_connections' = ac
         /\ run' = rn
         /\ req' = Returned(i)
         /\ UNCHANGED <<ctx, faults>>

\* stop_music_generation from its call to its first suspension (or its return).
stop_music_generation(i, s, op, v) ==
    LET sess == active_sessions[s]
        c == active_connections[s]
    IN
    IF sess = 0
    THEN /\ req' = Returned(i)
         /\ UNCHANGED <<poolVars, active_sessions, run, task, faults, frameVars, ctx, last_frame>>
    ELSE IF c = 0
    THEN \* release_connection finds no connection (331-333) and returns
         /\ last_frame' = 0
         /\ AfterStop(i, s, op, v, conn, active_connections,
                      Stopped([run EXCEPT ![sess].is_active = FALSE], sess))
         /\ UNCHANGED <<pool, bg, bootVars, task, frameVars>>
    ELSE LET e == EnterStop(conn, task, c) IN
         /\ run' = [run EXCEPT ![sess].is_active = FALSE]
         /\ conn' = e.conn
         /\ task' = e.task
         /\ req' = [req EXCEPT ![i] = [op |-> op, sid |-> s, pc |-> e.pc, c |-> c,
                                       r |-> sess, v |-> v]]
         /\ UNCHANGED <<pool, active_connections, bg, bootVars, active_sessions, faults, frameVars,
                        ctx, last_frame>>

\* POST /api/music/stop
stop_music(i, s) ==
    /\ Takes(i)
    /\ stop_music_generation(i, s, "stop", IdleReq.v)

\* websocket_endpoint's WebSocketDisconnect handler: stop, then cleanup_session.
websocket_disconnect(i, s) ==
    /\ Takes(i)
    /\ stop_music_generation(i, s, "disconnect", IdleReq.v)

\* release_connection resumes after connection.stop() (line 336) and enters close().
release_after_stop(i) ==
    /\ Idle
    /\ req[i].pc = "a_stop"
    /\ LET e == EnterClose(conn, task, req[i].c) IN
       /\ conn' = e.conn
       /\ task' = e.task
       /\ req' = [req EXCEPT ![i].pc = e.pc]
    /\ UNCHANGED <<pool, active_connections, bg, bootVars, active_sessions, run, faults, frameVars,
                   ctx, last_frame>>

\* close() resumes after its own stop() (line 240) and closes the websocket.
release_after_close_stop(i) ==
    /\ Idle
    /\ req[i].pc = "a_close_stop"
    /\ LET e == EnterWsClose(conn, task, req[i].c) IN
       /\ conn' = e.conn
       /\ task' = e.task
       /\ req' = [req EXCEPT ![i].pc = e.pc]
    /\ UNCHANGED <<pool, active_connections, bg, bootVars, active_sessions, run, faults, frameVars,
                   ctx, last_frame>>

\* ws.close() returned: status = "closed" (248), and connect() dials (79).
release_ws_closed(i) ==
    /\ Idle
    /\ req[i].pc = "a_ws_close"
    /\ conn' = [conn EXCEPT ![req[i].c].status = "closed"]
    /\ req' = [req EXCEPT ![i].pc = "a_connect"]
    /\ UNCHANGED <<pool, active_connections, bg, bootVars, active_sessions, run, task, faults,
                   frameVars, ctx, last_frame>>

\* websockets.connect returned: self.ws is the new websocket, the setup message is sent.
release_connected(i) ==
    /\ Idle
    /\ req[i].pc = "a_connect"
    /\ LET c == req[i].c IN
       /\ conn' = [conn EXCEPT ![c].ws_open = TRUE, ![c].ws_gen = {}]
       /\ task' = WsReplacedTasks(task, conn, c)
       /\ req' = [req EXCEPT ![i].pc = "a_setup"]
    /\ UNCHANGED <<pool, active_connections, bg, bootVars, active_sessions, run, faults, frameVars,
                   ctx, last_frame>>

\* connect() fails (99-102): status = "error", and the exception leaves
\* release_connection, stop_music_generation and their caller.
release_connect_failed(i) ==
    /\ Idle
    /\ faults < MaxFaults
    /\ faults' = faults + 1
    /\ req[i].pc \in {"a_connect", "a_setup"}
    /\ conn' = [conn EXCEPT ![req[i].c].status = "error"]
    /\ req' = Rejected(i, "connect", req[i].sid)
    /\ UNCHANGED <<pool, active_connections, bg, bootVars, active_sessions, run, task, frameVars,
                   ctx, last_frame>>

\* The connection's fields after release_connection's reset (lines 344-346).
ResetConnection(cn) ==
    [cn EXCEPT !.is_active = FALSE, !.session_id = NoSession, !.on_audio_data = 0]

\* A release that takes the connection it has reset out of the pool list.
ReleaseReadyRemoves(i) ==
    /\ Idle
    /\ req[i].pc = "a_setup"
    /\ LET c == req[i].c
           s == req[i].sid
           cn == [conn EXCEPT ![c] = ResetConnection([conn[c] EXCEPT !.status = "ready"])]
       IN
       /\ pool' = SelectSeq(pool, LAMBDA x : x # c)
       /\ IF active_connections[s] = 0
          THEN /\ conn' = cn
               /\ req' = Raised(i)
               /\ UNCHANGED <<active_connections, active_sessions, run, ctx, last_frame, faults>>
          ELSE /\ last_frame' = 0
               /\ AfterStop(i, s, req[i].op, req[i].v, cn,
                            [active_connections EXCEPT ![s] = 0], Stopped(run, req[i].r))
    /\ UNCHANGED <<bg, bootVars, task, frameVars>>

\* setupComplete arrived: status = "ready"; release_connection resets the connection
\* and deletes the session's entry (344-348); stop_music_generation finishes (583-587)
\* and its caller goes on.
release_ready(i) ==
    /\ Idle
    /\ req[i].pc = "a_setup"
    /\ LET c == req[i].c
           s == req[i].sid
           cn == [conn EXCEPT ![c] = ResetConnection([conn[c] EXCEPT !.status = "ready"])]
       IN
       IF active_connections[s] = 0
       THEN \* del self.active_connections[session_id] raises KeyError
            /\ conn' = cn
            /\ req' = Raised(i)
            /\ UNCHANGED <<active_connections, active_sessions, run, ctx, last_frame, faults>>
       ELSE /\ last_frame' = 0
            /\ AfterStop(i, s, req[i].op, req[i].v, cn,
                         [active_connections EXCEPT ![s] = 0], Stopped(run, req[i].r))
    /\ UNCHANGED <<pool, bg, bootVars, task, frameVars>>

\* ------------------------------------------------------------ start_music_generation
\* POST /api/music/start: start_music_generation from its call to its first
\* suspension (57-123).  An existing record is cleaned up first; if it is still active
\* the call first runs stop_music_generation.  cap bounds the records ever made.
start_music_generation(i, s, v, cap) ==
    /\ Takes(i)
    /\ Cardinality({r \in Runs : run[r].stage # "none"}) + Cardinality(Acquiring) < cap
    /\ IF ~is_initialized.orchestrator
       THEN \* "Orchestrator not initialized" (61-62)
            /\ req' = Rejected(i, "start", s)
            /\ UNCHANGED <<poolVars, active_sessions, run, task, faults, frameVars, ctx,
                           last_frame>>
       ELSE IF active_sessions[s] # 0 /\ run[active_sessions[s]].is_active
       THEN stop_music_generation(i, s, "restart", v)
       ELSE /\ active_sessions' = cleanup_session(active_sessions, s)
            /\ StartFrom(i, s, IF active_sessions[s] # 0 THEN "restart" ELSE "start", v,
                         conn, active_connections, run)
            /\ UNCHANGED <<pool, bg, bootVars, task, frameVars, last_frame>>

\* An acquire that creates the connection for its caller and schedules no replacement.
StartCreatedAlone(i) ==
    /\ Idle
    /\ req[i].pc = "a_create"
    /\ CanCreate
    /\ LET s == req[i].sid
           r == FreshRun
           c == FreshConn
       IN
       /\ pool' = Append(pool, c)
       /\ conn' = Assigned([conn EXCEPT ![c] = ReadyConnection], c, s, r)
       /\ active_connections' = [active_connections EXCEPT ![s] = c]
       /\ run' = [run EXCEPT ![r] = Closure(req[i].v)]
       /\ ctx' = [ctx EXCEPT ![r] = NewCtx]
       /\ req' = [req EXCEPT ![i].pc = "a_meta", ![i].c = c, ![i].r = r]
    /\ UNCHANGED <<bg, bootVars, active_sessions, task, faults, frameVars, last_frame>>

\* The on-demand _create_connection returned (313): the new connection is in the
\* pool, a replacement is scheduled (316) and the new connection is assigned; the call
\* runs on to its await of analyze_video_metadata.
start_created(i) ==
    /\ Idle
    /\ req[i].pc = "a_create"
    /\ CanCreate
    /\ LET s == req[i].sid
           r == FreshRun
           c == FreshConn
       IN
       /\ pool' = Append(pool, c)
       /\ conn' = Assigned([conn EXCEPT ![c] = ReadyConnection], c, s, r)
       /\ bg' = bg + 1
       /\ UNCHANGED bootVars
       /\ active_connections' = [active_connections EXCEPT ![s] = c]
       /\ run' = [run EXCEPT ![r] = Closure(req[i].v)]
       /\ ctx' = [ctx EXCEPT ![r] = NewCtx]
       /\ req' = [req EXCEPT ![i].pc = "a_meta", ![i].c = c, ![i].r = r]
    /\ UNCHANGED <<active_sessions, task, faults, frameVars, last_frame>>

\* An on-demand creation that leaves its failed connection in the pool.
StartCreateFailedKeeps(i) ==
    /\ Idle
    /\ faults < MaxFaults
    /\ faults' = faults + 1
    /\ req[i].pc = "a_create"
    /\ CanCreate
    /\ pool' = Append(pool, FreshConn)
    /\ conn' = [conn EXCEPT ![FreshConn].status = "error"]
    /\ req' = Rejected(i, "create", req[i].sid)
    /\ UNCHANGED <<active_connections, bg, bootVars, active_sessions, run, task, frameVars, ctx,
                   last_frame>>

\* The on-demand _create_connection raised (295-297): acquire and start raise.
start_create_failed(i) ==
    /\ Idle
    /\ faults < MaxFaults
    /\ faults' = faults + 1
    /\ req[i].pc = "a_create"
    /\ req' = Rejected(i, "create", req[i].sid)
    /\ UNCHANGED <<poolVars, active_sessions, run, task, frameVars, ctx, last_frame>>

\* A replacement _create_connection task finishes (286-291): it appends its
\* connection to the pool.
replacement_created ==
    /\ Idle
    /\ bg > 0
    /\ bg' = bg - 1
    /\ UNCHANGED bootVars
    /\ CanCreate
    /\ pool' = Append(pool, FreshConn)
    /\ conn' = [conn EXCEPT ![FreshConn] = ReadyConnection]
    /\ UNCHANGED <<active_connections, orchVars, faults, frameVars, ctx, last_frame>>

\* The connect() of a replacement task raised (295-297): nobody awaits the task, and
\* the pool stays as it is.
replacement_failed ==
    /\ Idle
    /\ bg > 0
    /\ bg' = bg - 1
    /\ UNCHANGED bootVars
    /\ UNCHANGED <<pool, conn, active_connections, orchVars, faults, frameVars, ctx,
                   last_frame>>

\* analyze_video_metadata returned (it never raises); LyriaConnection.start up to its
\* first ws.send (156-181): is_active, and the receive task is created.
connection_start(i) ==
    /\ Idle
    /\ req[i].pc = "a_meta"
    /\ LET c == req[i].c
           r == req[i].r
       IN
       /\ conn' = [conn EXCEPT ![c].is_active = TRUE,
                                ![c].recv_task = IF conn[c].ws_open THEN r ELSE 0]
       /\ task' = [task EXCEPT ![r] = IF conn[c].ws_open
                                       THEN [st |-> "cur", conn |-> c, gen |-> {}]
                                       ELSE DoneTask]
       /\ req' = [req EXCEPT ![i].pc = "a_send"]
    /\ UNCHANGED <<pool, active_connections, bg, bootVars, active_sessions, run, faults, frameVars,
                   ctx, last_frame>>

\* The session record start_music_generation stores (139-152).
Record(rn, c) == [rn EXCEPT !.stage = "record", !.is_active = TRUE, !.conn = c]

\* Both sends of LyriaConnection.start went out (181-187): generation plays; the
\* record is stored (154) and the frame task created (157); start returns.
start_started(i) ==
    /\ Idle
    /\ req[i].pc = "a_send"
    /\ LET c == req[i].c
           r == req[i].r
       IN
       /\ conn[c].ws_open
       /\ conn' = [conn EXCEPT ![c].ws_gen = @ \cup {r}]
       /\ run' = [run EXCEPT ![r] = Record(run[r], c)]
       /\ active_sessions' = [active_sessions EXCEPT ![req[i].sid] = r]
       /\ sched' = [sched EXCEPT ![r] = NewSched]
       /\ req' = Returned(i)
    /\ UNCHANGED <<pool, active_connections, bg, bootVars, task, faults, ctx, sent, last_frame,
                   sampled, hist>>

\* A ws.send of LyriaConnection.start raised (the websocket is closed, or the
\* connection was lost): start_music_generation logs and re-raises (166-168).
start_send_failed(i) ==
    /\ Idle
    /\ faults < MaxFaults
    /\ faults' = faults + 1
    /\ req[i].pc = "a_send"
    /\ LET c == req[i].c IN
       /\ conn' = IF conn[c].ws_open
                  THEN [conn EXCEPT ![c].ws_open = FALSE, ![c].ws_gen = {}, ![c].status = "error",
                                    ![c].recv_task = StoredTask(task, c, @)]
                  ELSE conn
       /\ task' = WsClosedTasks(task, c)
    /\ req' = Raised(i)
    /\ UNCHANGED <<pool, active_connections, bg, bootVars, active_sessions, run, frameVars, ctx,
                   last_frame>>

\* ------------------------------------------------------------ audio
\* A relay_audio that puts the newest chunk at the front of the buffer.
RelayedInFront(rn, h, audio_data, sent_ok) ==
    [rn EXCEPT ![h].audio_chunks = <<audio_data>> \o @,
               ![h].delivered = IF sent_ok THEN Append(@, audio_data) ELSE @]

\* relay_audio of run h receives a chunk (102-116): it is appended to the run's buffer
\* and then sent to the run's client websocket, delivered being what that websocket
\* was handed; a send that raises is logged and swallowed.
relay_audio(rn, h, audio_data, sent_ok) ==
    [rn EXCEPT ![h].audio_chunks = Append(@, audio_data),
               ![h].delivered = IF sent_ok THEN Append(@, audio_data) ELSE @]

RECURSIVE SumLen(_)
SumLen(R) == IF R = {} THEN 0
             ELSE LET r == CHOOSE x \in R : TRUE IN Len(run[r].audio_chunks) + SumLen(R \ {r})

\* The audio chunks relayed so far, over all runs.
Relayed == SumLen(Runs)

Generations(t) == IF task[t].st = "cur" THEN conn[task[t].conn].ws_gen ELSE task[t].gen

\* The chunk a receive task reads next: music of generation g, the n-th chunk the
\* server has received.
Chunk(g) == [gen |-> g, n |-> Relayed + 1]

\* _receive_audio of task t reads an audio chunk from its websocket and hands it to
\* the handler its connection holds at that moment (130-144).
received(t, chunks, sent_ok) ==
    /\ Idle
    /\ TaskAlive(t)
    /\ conn[task[t].conn].on_audio_data # 0
    /\ Relayed < chunks
    /\ \E g \in Generations(t) :
          run' = relay_audio(run, conn[task[t].conn].on_audio_data, Chunk(g), sent_ok)
    /\ UNCHANGED <<poolVars, active_sessions, task, req, faults, frameVars, ctx, last_frame>>

\* A chunk is received while the client websocket of the handler takes it.
receive_audio(t) == received(t, MaxChunks, TRUE)

\* A chunk is received, up to MaxAudio in all, and the client websocket takes it.
audio_relayed(t) == received(t, MaxAudio, TRUE)

\* A chunk is received and send_bytes raises (113-116).
audio_unsent(t) == received(t, MaxAudio, FALSE)

\* ------------------------------------------------------------ CompositionContext
\* analysis.lower() (68), for the fragments that have capitals.
Lower(f) == IF f = "Dramatic" THEN "dramatic" ELSE f

\* word in lower_analysis: the word is a fragment of the lowered text or lies inside one.
Occurs(word, f) == Lower(f) = word \/ (Lower(f) = "breakfast" /\ word = "fast")

\* The analysis text holds one of the words.
AnyWord(a, words) == \E k \in 1..Len(a) : \E w \in words : Occurs(w, a[k])

\* An extraction in which the word list of an attribute that matches last sets it.
ExtractLastMatch(state, a) ==
    [mood |-> IF AnyWord(a, {"dark", "suspenseful"}) THEN "dark"
              ELSE IF AnyWord(a, {"upbeat", "energetic"}) THEN "upbeat"
              ELSE IF AnyWord(a, {"calm", "peaceful"}) THEN "calm"
              ELSE IF AnyWord(a, {"intense", "dramatic"}) THEN "intense"
              ELSE state.mood,
     tempo |-> IF AnyWord(a, {"slow"}) THEN "slow"
               ELSE IF AnyWord(a, {"fast", "quick"}) THEN "fast"
               ELSE state.tempo,
     intensity |-> IF AnyWord(a, {"fading", "diminishing"}) THEN "fading"
                   ELSE IF AnyWord(a, {"peak", "climax"}) THEN "peak"
                   ELSE IF AnyWord(a, {"building", "crescendo"}) THEN "building"
                   ELSE state.intensity]

\* _extract_state_from_analysis (66-92): the first matching word list of each
\* attribute sets it, an attribute no word names stays.
extract_state_from_analysis(state, a) ==
    [mood |-> IF AnyWord(a, {"intense", "dramatic"}) THEN "intense"
              ELSE IF AnyWord(a, {"calm", "peaceful"}) THEN "calm"
              ELSE IF AnyWord(a, {"upbeat", "energetic"}) THEN "upbeat"
              ELSE IF AnyWord(a, {"dark", "suspenseful"}) THEN "dark"
              ELSE state.mood,
     tempo |-> IF AnyWord(a, {"fast", "quick"}) THEN "fast"
               ELSE IF AnyWord(a, {"slow"}) THEN "slow"
               ELSE state.tempo,
     intensity |-> IF AnyWord(a, {"building", "crescendo"}) THEN "building"
                   ELSE IF AnyWord(a, {"peak", "climax"}) THEN "peak"
                   ELSE IF AnyWord(a, {"fading", "diminishing"}) THEN "fading"
                   ELSE state.intensity]

\* update_from_analysis (53-64): the analysis joins the rolling window of recent
\* updates, whose oldest entry is dropped beyond max_recent_updates.
update_from_analysis(cx, a) ==
    LET ups == Append(cx.recent_updates, a) IN
    [cx EXCEPT !.recent_updates = IF Len(ups) > max_recent_updates THEN Tail(ups) ELSE ups,
               !.current_state = extract_state_from_analysis(@, a)]

\* An add_user_prompt that drops the newest prompt of a full list.
AddDropsNewest(cx, t) ==
    [cx EXCEPT !.user_prompts = IF Len(@) >= max_user_prompts THEN @ ELSE Append(@, t)]

\* add_user_prompt (45-51): the prompt joins the user prompts, whose oldest entry is
\* dropped beyond max_user_prompts.
add_user_prompt(cx, t) ==
    LET ups == Append(cx.user_prompts, t) IN
    [cx EXCEPT !.user_prompts = IF Len(ups) > max_user_prompts THEN Tail(ups) ELSE ups]

RECURSIVE Joined(_)
\* ". ".join of the texts of a list of prompts (108).
Joined(ps) == IF ps = <<>> THEN <<>> ELSE Head(ps) \o Joined(Tail(ps))

\* The summary of current_state (120-122).
Summary(state) ==
    <<state.mood, "mood,", state.tempo, "tempo,", state.intensity, "intensity">>

\* A generate_lyria_prompt that puts the analysis before the user prompts.
AnalysisFirst(cx, new_analysis) ==
    (IF new_analysis # <<>> THEN new_analysis ELSE Summary(cx.current_state))
    \o (IF cx.user_prompts # <<>> THEN <<"User requests:">> \o Joined(cx.user_prompts)
        ELSE <<>>)

\* A generate_lyria_prompt that names the video.
TitledPrompt(cx, new_analysis) ==
    <<"Music for:", cx.video_title>> \o new_analysis

\* generate_lyria_prompt (94-124): the user prompts, if any, under "User requests:",
\* then the new analysis or, when there is none (None and "" are written <<>>), the
\* summary of the current state.
generate_lyria_prompt(cx, new_analysis) ==
    (IF cx.user_prompts # <<>> THEN <<"User requests:">> \o Joined(cx.user_prompts)
     ELSE <<>>)
    \o (IF new_analysis # <<>> THEN new_analysis ELSE Summary(cx.current_state))

Kept(f) == f \notin Removed

\* A sanitiser that always falls back to the generic prompt.
SanitizedAway(p) == <<"ambient instrumental background music">>

\* sanitize_prompt_for_lyria (lyria_pool.py 19-53): every match of a pattern is cut
\* out, and a prompt of which too little is left is replaced by a generic one.
sanitize_prompt_for_lyria(p) ==
    LET sanitized == SelectSeq(p, Kept) IN
    IF sanitized = <<>> THEN <<"ambient instrumental background music">> ELSE sanitized

\* An update_prompt that writes the beginning of its message only.
PartialMessage(r, new_prompt) ==
    [run |-> r, text |-> SubSeq(sanitize_prompt_for_lyria(new_prompt), 1, 1)]

\* The weightedPrompts message update_prompt sends (194-211), and the run for which it
\* was composed.
Message(r, new_prompt) == [run |-> r, text |-> sanitize_prompt_for_lyria(new_prompt)]

\* The text of the analysis of the n-th frame of a run.
Analysis(n) == <<"scene", ToString(n)>>

\* ------------------------------------------------------------ a context on its own
\* CompositionContext(video_info["title"]) (orchestrator.py 85): the context under
\* test is made, with some title.
context_created(title) ==
    /\ ~given.made
    /\ ctx' = [ctx EXCEPT ![1] = CompositionContext(title)]
    /\ given' = [NoGiven EXCEPT !.made = TRUE]
    /\ UNCHANGED <<pool, conn, active_connections, bg, is_initialized, startup, teardown,
                   orchVars, faults, frameVars, last_frame>>

\* A call of add_user_prompt on the context under test.
prompt_added(t) ==
    /\ given.made
    /\ Len(given.prompts) < MaxDirectives
    /\ ctx' = [ctx EXCEPT ![1] = add_user_prompt(@, t)]
    /\ given' = [given EXCEPT !.prompts = Append(@, t), !.asked = <<>>, !.out = <<>>]
    /\ UNCHANGED <<pool, conn, active_connections, bg, is_initialized, startup, teardown,
                   orchVars, faults, frameVars, last_frame>>

\* A call of update_from_analysis on the context under test.
analysis_applied(a) ==
    /\ given.made
    /\ Len(given.analyses) < MaxAnalyses
    /\ ctx' = [ctx EXCEPT ![1] = update_from_analysis(@, a)]
    /\ given' = [given EXCEPT !.analyses = Append(@, a), !.asked = <<>>, !.out = <<>>]
    /\ UNCHANGED <<pool, conn, active_connections, bg, is_initialized, startup, teardown,
                   orchVars, faults, frameVars, last_frame>>

\* A call of generate_lyria_prompt on the context under test, with an analysis or
\* with none: it reads the context and writes no field of it.
prompt_generated(a) ==
    /\ given.made
    /\ given.out = <<>>
    /\ given' = [given EXCEPT !.asked = a, !.out = generate_lyria_prompt(ctx[1], a)]
    /\ UNCHANGED <<pool, conn, active_connections, bg, is_initialized, startup, teardown,
                   orchVars, faults, frameVars, ctx, last_frame>>

\* ------------------------------------------------------------ update_playback_offset
\* POST /api/music/seek and the websocket "seek" message, for a session that has a
\* record: both fields are written without a suspension in between (470-471), the
\* anchor so that the time elapsed since it is new_offset.
update_playback_offset(s, n) ==
    /\ Idle
    /\ active_sessions[s] # 0
    /\ LET r == active_sessions[s] IN
       /\ hist[r].seeks < MaxSeeks
       /\ run' = [run EXCEPT ![r].has_offset = TRUE,
                             ![r].playback_offset = n,
                             ![r].real_time_elapsed = n]
       /\ hist' = [hist EXCEPT ![r].seeks = @ + 1,
                               ![r].seek_n = n,
                               ![r].seek_p = IF sched[r].pc = "sleep" /\ ~run[r].video.is_live
                                             THEN sched[r].playback_offset ELSE 0]
       /\ sampled' = [sampled EXCEPT ![r] = <<>>]
    /\ UNCHANGED <<poolVars, active_sessions, task, req, faults, sched, ctx, sent,
                   last_frame>>

\* ------------------------------------------------------------ unknown session ids
\* A seek that raises for an id without a record only after it has moved the offset
\* of the records there are.
SeekUnknownMoves(i, s) ==
    /\ Takes(i)
    /\ active_sessions[s] = 0
    /\ req' = Rejected(i, "seek", s)
    /\ run' = [r \in Runs |-> [run[r] EXCEPT !.playback_offset = 0]]
    /\ UNCHANGED <<poolVars, active_sessions, task, faults, frameVars, ctx, last_frame>>

\* update_playback_offset for an id without a record (458-461).
update_playback_offset_unknown(i, s) ==
    /\ Takes(i)
    /\ active_sessions[s] = 0
    /\ req' = Rejected(i, "seek", s)
    /\ UNCHANGED <<poolVars, active_sessions, run, task, faults, frameVars, ctx, last_frame>>

\* What export_audio_as_wav returns (487-560): the chunks of the record's buffer in
\* their order, behind a WAV header; it raises for an id without a record and for an
\* empty buffer.
export_audio_as_wav(s) ==
    IF active_sessions[s] = 0 THEN [raised |-> TRUE, data |-> <<>>]
    ELSE IF run[active_sessions[s]].audio_chunks = <<>> THEN [raised |-> TRUE, data |-> <<>>]
    ELSE [raised |-> FALSE, data |-> run[active_sessions[s]].audio_chunks]

\* POST /api/music/download for an id without a record (500-503).
export_unknown(i, s) ==
    /\ Takes(i)
    /\ active_sessions[s] = 0
    /\ export_audio_as_wav(s).raised
    /\ req' = Rejected(i, "export", s)
    /\ UNCHANGED <<poolVars, active_sessions, run, task, faults, frameVars, ctx, last_frame>>

\* POST /api/music/download for a session whose record has audio (main.py 226-252): the
\* WAV data is returned.
export_returned(i, s) ==
    /\ Takes(i)
    /\ ~export_audio_as_wav(s).raised
    /\ req' = [req EXCEPT ![i] = [IdleReq EXCEPT !.pc = "returned", !.op = "export", !.sid = s]]
    /\ UNCHANGED <<poolVars, active_sessions, run, task, faults, frameVars, ctx, last_frame>>

\* get_session_status (597-612).
get_session_status(s) ==
    IF active_sessions[s] = 0 THEN [exists |-> FALSE, is_active |-> FALSE]
    ELSE [exists |-> TRUE, is_active |-> run[active_sessions[s]].is_active]

\* ------------------------------------------------------------ handle_user_prompt
\* POST /api/music/prompt and the websocket "prompt" message: handle_user_prompt from
\* its call to its suspension in update_prompt's ws.send (418-440).  It raises for an
\* id without a record; otherwise the prompt joins the context, the new prompt is
\* composed and written to the websocket of the record's connection, where a closed
\* websocket raises.
handle_user_prompt(i, s, t) ==
    /\ Takes(i)
    /\ IF active_sessions[s] = 0
       THEN /\ req' = Rejected(i, "prompt", s)
            /\ UNCHANGED <<ctx, sent>>
       ELSE LET r == active_sessions[s]
                c == run[r].conn
            IN
            /\ Len(ctx[r].user_prompts) < MaxPrompts
            /\ ctx' = [ctx EXCEPT ![r] = add_user_prompt(@, t)]
            /\ IF conn[c].ws_open
               THEN /\ sent' = [sent EXCEPT ![c] =
                                  Append(@, Message(r, generate_lyria_prompt(ctx'[r], t)))]
                    /\ req' = [req EXCEPT ![i] = [op |-> "prompt", sid |-> s, pc |-> "a_push",
                                                  c |-> c, r |-> r, v |-> IdleReq.v]]
               ELSE /\ sent' = sent
                    /\ req' = Raised(i)
    /\ UNCHANGED <<poolVars, active_sessions, run, task, faults, sched, last_frame, sampled,
                   hist>>

\* update_prompt's send completed: handle_user_prompt returns (442-444).
prompt_applied(i) ==
    /\ Idle
    /\ req[i].pc = "a_push"
    /\ req' = Returned(i)
    /\ UNCHANGED <<poolVars, active_sessions, run, task, faults, frameVars, ctx, last_frame>>

\* ------------------------------------------------------------ the frame loops
\* _process_video_frames starts: the livestream loop goes to its loop test; the
\* recorded loop first anchors the timeline (282-288).
sched_begin(r) ==
    /\ Idle
    /\ sched[r].pc = "created"
    /\ IF run[r].video.is_live
       THEN /\ sched' = [sched EXCEPT ![r].pc = "top"]
            /\ run' = run
       ELSE /\ sched' = [sched EXCEPT ![r].pc = "top",
                                      ![r].playback_offset = first_frame_offset,
                                      ![r].real_time_elapsed = 0]
            /\ run' = [run EXCEPT ![r].has_offset = TRUE,
                                  ![r].playback_offset = first_frame_offset,
                                  ![r].real_time_elapsed = 0]
    /\ UNCHANGED <<poolVars, active_sessions, task, req, faults, ctx, sent, last_frame,
                   sampled, hist>>

\* wait_time of lines 294-298.
WaitTime(sc) == (sc.playback_offset - processing_buffer) - sc.real_time_elapsed

\* A loop test that lets the recorded loop go on at the duration itself.
ContinuesInclusive(sc, rn) ==
    IF rn.video.is_live THEN rn.is_active
    ELSE rn.is_active /\ sc.playback_offset <= rn.video.duration

\* A loop test that looks at the session's flag only.
ContinuesWhileActive(sc, rn) == rn.is_active

\* The loop test of the recorded loop (290) and of the livestream loop (198).
Continues(sc, rn) ==
    IF rn.video.is_live THEN rn.is_active
    ELSE rn.is_active /\ sc.playback_offset < rn.video.duration

\* The loop test, and in the recorded loop the cadence wait (290-302).
loop_top(r) ==
    /\ sched[r].pc = "top"
    /\ LET sc == sched[r] IN
       sched' = [sched EXCEPT ![r] =
                    IF ~Continues(sc, run[r]) THEN [sc EXCEPT !.pc = "done"]
                    ELSE IF ~run[r].video.is_live /\ WaitTime(sc) > 0
                    THEN [sc EXCEPT !.pc = "sleep", !.wait_time = WaitTime(sc)]
                    ELSE [sc EXCEPT !.pc = "extract"]]
    /\ UNCHANGED <<poolVars, orchVars, faults, ctx, sent, last_frame, sampled, hist>>

\* A wake-up that does not look at the session's offset.
AfterWakeStale(sc, rn) == [sc EXCEPT !.pc = "extract"]

\* What the recorded loop does when its cadence sleep returns (305-310): a changed
\* session offset is adopted with the session's anchor and the iteration starts over;
\* otherwise the loop goes on to extract the frame.
AfterWake(sc, rn) ==
    IF rn.playback_offset # sc.playback_offset
    THEN [sc EXCEPT !.playback_offset = rn.playback_offset,
                    !.real_time_elapsed = rn.real_time_elapsed,
                    !.pc = "top"]
    ELSE [sc EXCEPT !.pc = "extract"]

\* asyncio.sleep returned: the cadence sleep of the recorded loop (302), or the
\* snapshot interval of the livestream loop (253), after which the loop test follows.
sleep_wake(r) ==
    /\ Idle
    /\ sched[r].pc = "sleep"
    /\ sched[r].wait_time <= 0
    /\ sched' = [sched EXCEPT ![r] = IF run[r].video.is_live THEN [@ EXCEPT !.pc = "top"]
                                     ELSE AfterWake(@, run[r])]
    /\ UNCHANGED <<poolVars, orchVars, faults, ctx, sent, last_frame, sampled, hist>>

\* The sleep in the livestream loop's exception handler returned (257).
backoff_wake(r) ==
    /\ Idle
    /\ sched[r].pc = "backoff"
    /\ sched[r].wait_time <= 0
    /\ sched' = [sched EXCEPT ![r].pc = "top"]
    /\ UNCHANGED <<poolVars, orchVars, faults, ctx, sent, last_frame, sampled, hist>>

\* An exception handler after which the recorded loop goes on with the next offset.
CaughtAdvances(sc, rn) ==
    IF rn.video.is_live
    THEN [sc EXCEPT !.pc = "backoff", !.wait_time = livestream_interval, !.waited = 0]
    ELSE [sc EXCEPT !.pc = "top", !.waited = 0, !.playback_offset = @ + frame_interval]

\* The loop's exception handler: the livestream loop sleeps livestream_interval
\* (255-257), the recorded loop prints and goes back to its loop test (413-414).
Caught(sc, rn) ==
    IF rn.video.is_live
    THEN [sc EXCEPT !.pc = "backoff", !.wait_time = livestream_interval, !.waited = 0]
    ELSE [sc EXCEPT !.pc = "top", !.waited = 0]

Counted(h) == [h EXCEPT !.errors = @ + 1]

\* extract_frame (316) or extract_livestream_frame (201) returns a frame, which is
\* compared with the previous one if there is one and analysed in full if not; or it
\* raises.
extract_frame(r) ==
    /\ sched[r].pc = "extract"
    /\ Len(sampled[r]) < MaxSamples
    /\ \/ /\ sampled' = [sampled EXCEPT ![r] = Append(@, sched[r].playback_offset)]
          /\ sched' = [sched EXCEPT ![r].compared = FALSE,
                                    ![r].pc = IF sched[r].previous_frame THEN "compare"
                                              ELSE "analyze"]
          /\ UNCHANGED <<faults, hist>>
       \/ /\ faults < MaxFaults
          /\ faults' = faults + 1
          /\ sched' = [sched EXCEPT ![r] = Caught(@, run[r])]
          /\ hist' = [hist EXCEPT ![r] = Counted(@)]
          /\ UNCHANGED sampled
    /\ UNCHANGED <<poolVars, orchVars, ctx, sent, last_frame>>

\* A test that takes every difference for significant.
SignificantAlways(d) == d >= 0

\* difference > frame_diff_threshold (332 of orchestrator.py, 383 of frame_extractor.py)
Significant(d) == d > frame_diff_threshold

\* The recorded loop's compare_frames (329-332) and the livestream loop's
\* is_significant_change (206, frame_extractor.py 375-387), which compares with
\* FrameExtractor.last_frame and replaces it on a significant change.
compare_frames(r) ==
    /\ sched[r].pc = "compare"
    /\ IF run[r].video.is_live /\ last_frame = 0
       THEN /\ last_frame' = r
            /\ sched' = [sched EXCEPT ![r].pc = "delta"]
       ELSE \E d \in Diffs :
               /\ sched' = [sched EXCEPT ![r].compared = TRUE,
                                         ![r].difference = d,
                                         ![r].pc = IF Significant(d) THEN "delta" ELSE "post"]
               /\ last_frame' = IF run[r].video.is_live /\ Significant(d) THEN r
                                ELSE last_frame
    /\ UNCHANGED <<poolVars, orchVars, faults, ctx, sent, sampled, hist>>

\* A compare_frames whose failure ends the iteration without an analysis.
CompareFailedSkips(r) ==
    /\ sched[r].pc = "compare"
    /\ ~(run[r].video.is_live /\ last_frame = 0)
    /\ faults < MaxFaults
    /\ faults' = faults + 1
    /\ sched' = [sched EXCEPT ![r].compared = TRUE, ![r].pc = "post"]
    /\ UNCHANGED <<poolVars, orchVars, ctx, sent, last_frame, sampled, hist>>

\* compare_frames fails (frame_extractor.py 370-373): it logs the error and returns
\* 1.0, which the caller takes for a significant change (332, 383-385).
compare_failed(r) ==
    /\ sched[r].pc = "compare"
    /\ ~(run[r].video.is_live /\ last_frame = 0)
    /\ faults < MaxFaults
    /\ faults' = faults + 1
    /\ sched' = [sched EXCEPT ![r].compared = TRUE,
                              ![r].difference = assumed_difference,
                              ![r].pc = IF Significant(assumed_difference) THEN "delta"
                                        ELSE "post"]
    /\ last_frame' = IF run[r].video.is_live /\ Significant(assumed_difference) THEN r
                     ELSE last_frame
    /\ UNCHANGED <<poolVars, orchVars, ctx, sent, sampled, hist>>

\* An analysis calls for a change: update_from_analysis, generate_lyria_prompt and
\* update_prompt (354-357, 376-379, 226-230, 242-245).  update_prompt writes the prompt
\* to the connection's websocket and suspends in the send, or raises on a closed one.
Push(r) ==
    LET c == run[r].conn IN
    /\ ctx' = [ctx EXCEPT ![r] = update_from_analysis(@, Analysis(Len(sampled[r])))]
    /\ IF conn[c].ws_open
       THEN /\ sent' = [sent EXCEPT ![c] =
                          Append(@, Message(r, generate_lyria_prompt(ctx'[r],
                                                    Analysis(Len(sampled[r])))))]
            /\ sched' = [sched EXCEPT ![r].pc = "push", ![r].waited = 0]
            /\ hist' = hist
       ELSE /\ sent' = sent
            /\ sched' = [sched EXCEPT ![r] = Caught(@, run[r])]
            /\ hist' = [hist EXCEPT ![r] = Counted(@)]

\* analyze_frame_delta returned (338, 213), with needs_change or without, or raised.
delta_returns(r) ==
    /\ Idle
    /\ sched[r].pc = "delta"
    /\ \/ Len(sent[run[r].conn]) < MaxPushes /\ Push(r) /\ faults' = faults
       \/ /\ sched' = [sched EXCEPT ![r].pc = "post", ![r].waited = 0]
          /\ UNCHANGED <<ctx, sent, hist, faults>>
       \/ /\ faults < MaxFaults
          /\ faults' = faults + 1
          /\ sched' = [sched EXCEPT ![r] = Caught(@, run[r])]
          /\ hist' = [hist EXCEPT ![r] = Counted(@)]
          /\ UNCHANGED <<ctx, sent>>
    /\ UNCHANGED <<poolVars, orchVars, last_frame, sampled>>

\* analyze_frame of the first frame returned (367, 237), or raised.
analyze_returns(r) ==
    /\ Idle
    /\ sched[r].pc = "analyze"
    /\ \/ Push(r) /\ faults' = faults
       \/ /\ faults < MaxFaults
          /\ faults' = faults + 1
          /\ sched' = [sched EXCEPT ![r] = Caught(@, run[r])]
          /\ hist' = [hist EXCEPT ![r] = Counted(@)]
          /\ UNCHANGED <<ctx, sent>>
    /\ UNCHANGED <<poolVars, orchVars, last_frame, sampled>>

\* update_prompt's send completed.
push_returns(r) ==
    /\ Idle
    /\ sched[r].pc = "push"
    /\ sched' = [sched EXCEPT ![r].pc = "post", ![r].waited = 0]
    /\ UNCHANGED <<poolVars, orchVars, faults, ctx, sent, last_frame, sampled, hist>>

\* The offset the recorded loop goes on with after a frame (391-409), from its own
\* offset and the session's.
NextOffset(local, current_offset) ==
    LET playback_offset == IF current_offset # local THEN current_offset ELSE local IN
    IF current_offset = playback_offset
    THEN playback_offset + frame_interval
    ELSE current_offset + frame_interval

\* The end of an iteration: previous_frame = current_frame (386, 250); the recorded
\* loop moves to the next offset (391-409) and returns to its loop test, the
\* livestream loop sleeps livestream_interval (253).
post(r) ==
    /\ sched[r].pc = "post"
    /\ IF run[r].video.is_live
       THEN /\ sched' = [sched EXCEPT ![r].previous_frame = TRUE,
                                      ![r].compared = FALSE,
                                      ![r].difference = 0,
                                      ![r].pc = "sleep",
                                      ![r].wait_time = livestream_interval]
            /\ run' = run
       ELSE LET cur == run[r].playback_offset
                nxt == NextOffset(sched[r].playback_offset, cur)
            IN
            /\ sched' = [sched EXCEPT ![r].previous_frame = TRUE,
                                      ![r].compared = FALSE,
                                      ![r].difference = 0,
                                      ![r].playback_offset = nxt,
                                      ![r].real_time_elapsed =
                                          IF cur # sched[r].playback_offset
                                          THEN run[r].real_time_elapsed ELSE @,
                                      ![r].pc = "top"]
            /\ run' = [run EXCEPT ![r].playback_offset = nxt]
    /\ UNCHANGED <<poolVars, active_sessions, task, req, faults, ctx, sent, last_frame,
                   sampled, hist>>

\* The awaits of the analyzer and of update_prompt, whose duration the backend decides.
Awaiting == {"delta", "analyze", "push"}

Alive(r) == sched[r].pc \notin {"none", "done"}

\* A frame task after TickLen seconds: its sleep has that much less to run, the time
\* since its anchor has grown.
Later(sc, live) ==
    [sc EXCEPT !.wait_time = IF sc.pc \in {"sleep", "backoff"} THEN @ - TickLen ELSE @,
               !.waited = IF sc.pc \in Awaiting THEN @ + 1 ELSE @,
               !.real_time_elapsed = IF live THEN @ ELSE @ + TickLen]

\* Time passes while the event loop is free, no frame task is waiting to be started,
\* no sleep is due and no backend call has been pending for MaxWait ticks.  The
\* clocks of a session whose frame task has ended are read by nobody and are left.
Tick ==
    /\ Idle
    /\ \E r \in Runs : Alive(r)
    /\ \A r \in Runs : sched[r].pc # "created"
    /\ \A r \in Runs : sched[r].pc \in {"sleep", "backoff"} => sched[r].wait_time > 0
    /\ \A r \in Runs : sched[r].pc \in Awaiting => sched[r].waited < MaxWait
    /\ \A r \in Runs : Alive(r) /\ run[r].has_offset => run[r].real_time_elapsed < MaxTime
    /\ sched' = [r \in Runs |-> IF Alive(r) THEN Later(sched[r], run[r].video.is_live)
                                ELSE sched[r]]
    /\ run' = [r \in Runs |->
                 [run[r] EXCEPT !.real_time_elapsed =
                                    IF Alive(r) /\ run[r].has_offset THEN @ + TickLen ELSE @,
                                !.stopped_at = IF @ = "now" THEN "past" ELSE @]]
    /\ UNCHANGED <<poolVars, active_sessions, task, req, faults, ctx, sent, last_frame,
                   sampled, hist>>

\* ------------------------------------------------------------ initialize
\* orchestrator.initialize (35-46) gathers lyria_pool.initialize, which gathers one
\* _create_connection per pool slot (269-279), and frame_extractor.initialize, which
\* makes a directory and returns.
initialize ==
    /\ startup.pc = "new"
    /\ startup' = [pc |-> "gather", pending |-> BootSize, failed |-> 0]
    /\ UNCHANGED <<pool, conn, active_connections, bg, is_initialized, teardown, given, orchVars,
                   faults, frameVars, ctx, last_frame>>

\* A gather that takes the setups that raised for done.
SetupFailedIgnored ==
    /\ Idle
    /\ startup.pending > 0
    /\ faults < MaxFaults
    /\ faults' = faults + 1
    /\ startup' = [pc |-> IF startup.pending = 1 THEN "done" ELSE startup.pc,
                   pending |-> startup.pending - 1,
                   failed |-> startup.failed + 1]
    /\ is_initialized' = IF startup.pending = 1
                         THEN [pool |-> TRUE, orchestrator |-> TRUE] ELSE is_initialized
    /\ UNCHANGED <<pool, conn, active_connections, bg, teardown, given, orchVars, frameVars, ctx,
                   last_frame>>

\* A _create_connection of initialize returned (286-291): its connection is in the
\* pool.  When it is the last one and none has raised, the gathers return and both
\* flags are set (281, 44); no request is served in between.
setup_created ==
    /\ Idle
    /\ startup.pending > 0
    /\ CanCreate
    /\ pool' = Append(pool, FreshConn)
    /\ conn' = [conn EXCEPT ![FreshConn] = ReadyConnection]
    /\ startup' = [pc |-> IF startup.pc = "gather" /\ startup.pending = 1 THEN "done"
                          ELSE startup.pc,
                   pending |-> startup.pending - 1,
                   failed |-> startup.failed]
    /\ is_initialized' = IF startup.pc = "gather" /\ startup.pending = 1
                         THEN [pool |-> TRUE, orchestrator |-> TRUE] ELSE is_initialized
    /\ UNCHANGED <<active_connections, bg, teardown, given, orchVars, faults, frameVars, ctx,
                   last_frame>>

\* A _create_connection of initialize raised (295-297): the gathers raise at once
\* and initialize ends without setting a flag, while the other setups run on.
setup_failed ==
    /\ Idle
    /\ startup.pending > 0
    /\ faults < MaxFaults
    /\ faults' = faults + 1
    /\ startup' = [pc |-> "raised", pending |-> startup.pending - 1,
                   failed |-> startup.failed + 1]
    /\ UNCHANGED <<pool, conn, active_connections, bg, is_initialized, teardown, given, orchVars,
                   frameVars, ctx, last_frame>>

\* ------------------------------------------------------------ shutdown
\* A close that leaves the websocket as it is.
CloseKeepsSocket(cn, tk, c) ==
    [conn |-> [ConnStopped(cn, c) EXCEPT ![c].status = "closed"],
     task |-> TaskCancelled(tk, cn[c].recv_task)]

\* LyriaConnection.close (238-248) from its call to its return: stop(), the websocket
\* is closed, status = "closed".
Close(cn, tk, c) ==
    LET e == EnterWsClose(ConnStopped(cn, c), TaskCancelled(tk, cn[c].recv_task), c) IN
    [conn |-> [e.conn EXCEPT ![c].status = "closed"], task |-> e.task]

\* orchestrator.shutdown up to its gather (616-623): every record of the table is
\* marked inactive, and pool.shutdown starts on the entries of active_connections
\* (362).  The server calls it once, when it has stopped serving (main.py 57-61).
shutdown_begin ==
    /\ Idle
    /\ teardown.pc \in {"none", "done"}
    /\ teardown.calls < MaxShutdowns
    /\ startup.pc = "done"
    /\ \A i \in Slots : Free(i)
    /\ run' = [r \in Runs |-> IF \E s \in Sessions : active_sessions[s] = r
                              THEN [run[r] EXCEPT !.is_active = FALSE] ELSE run[r]]
    /\ teardown' = [teardown EXCEPT !.pc = "stops",
                                    !.left = {s \in Sessions : active_connections[s] # 0},
                                    !.k = 1]
    /\ UNCHANGED <<pool, conn, active_connections, bg, is_initialized, startup, given,
                   active_sessions, task, req, faults, frameVars, ctx, last_frame>>

\* await connection.stop() for one entry of active_connections (362-363).
shutdown_stop(s) ==
    /\ Idle
    /\ teardown.pc = "stops"
    /\ s \in teardown.left
    /\ LET c == active_connections[s] IN
       /\ conn' = ConnStopped(conn, c)
       /\ task' = TaskCancelled(task, conn[c].recv_task)
    /\ teardown' = [teardown EXCEPT !.left = @ \ {s}]
    /\ UNCHANGED <<pool, active_connections, bg, is_initialized, startup, given, active_sessions,
                   run, req, faults, frameVars, ctx, last_frame>>

\* The loop over active_connections is over.
Stops == teardown.pc = "closes" \/ (teardown.pc = "stops" /\ teardown.left = {})

\* await connection.close() for the next connection of the pool list (366-367); the
\* loop also reaches a connection appended while it runs.
shutdown_close ==
    /\ Idle
    /\ Stops
    /\ teardown.k <= Len(pool)
    /\ LET e == Close(conn, task, pool[teardown.k]) IN
       /\ conn' = e.conn
       /\ task' = e.task
    /\ teardown' = [teardown EXCEPT !.pc = "closes", !.k = @ + 1]
    /\ UNCHANGED <<pool, active_connections, bg, is_initialized, startup, given, active_sessions,
                   run, req, faults, frameVars, ctx, last_frame>>

\* The loop over the pool is over in the stretch that ends the last close: both
\* collections are cleared and the pool's flag is reset (369-371); the gather returns
\* and the table of sessions is cleared (626).
shutdown_end ==
    /\ Idle
    /\ Stops
    /\ teardown.k > Len(pool)
    /\ pool' = <<>>
    /\ active_connections' = [s \in Sessions |-> 0]
    /\ is_initialized' = [is_initialized EXCEPT !.pool = FALSE]
    /\ active_sessions' = [s \in Sessions |-> 0]
    /\ teardown' = [pc |-> "done", left |-> {}, k |-> 0,
                    gone |-> teardown.gone + Len(pool), calls |-> teardown.calls + 1]
    /\ UNCHANGED <<conn, bg, startup, given, run, task, req, faults, frameVars, ctx, last_frame>>

\* ------------------------------------------------------------ specifications
\* The state after LyriaConnectionPool.initialize and orchestrator.initialize.
Init ==
    /\ pool = [k \in 1..PoolSize |-> k]
    /\ conn = [c \in Conns |-> IF c <= PoolSize THEN ReadyConnection ELSE NewConnection]
    /\ active_connections = [s \in Sessions |-> 0]
    /\ bg = 0
    /\ is_initialized = [pool |-> TRUE, orchestrator |-> TRUE]
    /\ startup = [pc |-> "done", pending |-> 0, failed |-> 0]
    /\ teardown = NoTeardown
    /\ given = NoGiven
    /\ active_sessions = [s \in Sessions |-> 0]
    /\ run = [r \in Runs |-> NoRun]
    /\ task = [r \in Runs |-> NoTask]
    /\ req = [i \in Slots |-> IdleReq]
    /\ faults = 0
    /\ sched = [r \in Runs |-> NoSched]
    /\ ctx = [r \in Runs |-> NewCtx]
    /\ sent = [c \in Conns |-> <<>>]
    /\ last_frame = 0
    /\ sampled = [r \in Runs |-> <<>>]
    /\ hist = [r \in Runs |-> NoHist]

\* The state after construction: an empty pool, nothing initialized.
Constructed ==
    /\ pool = <<>>
    /\ conn = [c \in Conns |-> NewConnection]
    /\ active_connections = [s \in Sessions |-> 0]
    /\ bg = 0
    /\ is_initialized = [pool |-> FALSE, orchestrator |-> FALSE]
    /\ startup = [pc |-> "new", pending |-> 0, failed |-> 0]
    /\ teardown = NoTeardown
    /\ given = NoGiven
    /\ active_sessions = [s \in Sessions |-> 0]
    /\ run = [r \in Runs |-> NoRun]
    /\ task = [r \in Runs |-> NoTask]
    /\ req = [i \in Slots |-> IdleReq]
    /\ faults = 0
    /\ sched = [r \in Runs |-> NoSched]
    /\ ctx = [r \in Runs |-> NewCtx]
    /\ sent = [c \in Conns |-> <<>>]
    /\ last_frame = 0
    /\ sampled = [r \in Runs |-> <<>>]
    /\ hist = [r \in Runs |-> NoHist]

\* release_connection from its first suspension to its end, where close() finds no
\* receive task left to cancel: stop() has just cancelled it.
ReleaseAlone ==
    \/ \E i \in Slots : release_after_stop(i)
    \/ \E i \in Slots : release_ws_closed(i)
    \/ \E i \in Slots : release_connected(i)
    \/ \E i \in Slots : release_ready(i)

\* release_connection among other calls on the same connection: a start in between
\* may have stored a new receive task, which close() cancels and awaits (240).
Release ==
    \/ ReleaseAlone
    \/ \E i \in Slots : release_after_close_stop(i)

\* The session lifecycle: starts, stops, disconnects, the pool and the audio relay.
\* The frame tasks are created and left unscheduled: they write no field that a
\* lifecycle step reads.
Next ==
    \/ \E i \in Slots, s \in Sessions : start_music_generation(i, s, Recorded, SpecRuns)
    \/ \E i \in Slots, s \in Sessions : stop_music(i, s)
    \/ \E i \in Slots, s \in Sessions : websocket_disconnect(i, s)
    \/ \E i \in Slots : start_created(i)
    \/ \E i \in Slots : start_create_failed(i)
    \/ replacement_created
    \/ replacement_failed
    \/ \E i \in Slots : connection_start(i)
    \/ \E i \in Slots : start_started(i)
    \/ \E i \in Slots : start_send_failed(i)
    \/ Release
    \/ \E i \in Slots : release_connect_failed(i)
    \/ \E t \in Runs : receive_audio(t)

Spec == Init /\ [][Next]_vars

\* One CompositionContext under every sequence of calls of its three methods.
ContextNext ==
    \/ \E title \in Titles : context_created(title)
    \/ \E t \in Texts : prompt_added(t)
    \/ \E a \in Notes : analysis_applied(a)
    \/ \E a \in Notes \cup Texts \cup {<<>>} : prompt_generated(a)

ContextSpec == Init /\ [][ContextNext]_vars

\* A context to which analyses of every kind are applied.
DescriptorNext ==
    \/ \E title \in Titles : context_created(title)
    \/ \E a \in Reports \cup Notes : analysis_applied(a)

DescriptorSpec == Init /\ [][DescriptorNext]_vars

\* Sessions that are started, stopped, restarted and exported while their
\* connections deliver audio and their client websockets take it or fail.
AudioNext ==
    \/ \E i \in Slots, s \in Sessions : start_music_generation(i, s, Recorded, SpecRuns)
    \/ \E i \in Slots, s \in Sessions : stop_music(i, s)
    \/ \E i \in Slots : connection_start(i)
    \/ \E i \in Slots : start_started(i)
    \/ Release
    \/ \E t \in Runs : audio_relayed(t)
    \/ \E t \in Runs : audio_unsent(t)
    \/ \E i \in Slots, s \in Sessions : export_returned(i, s)
    \/ \E i \in Slots, s \in Sessions : export_unknown(i, s)

AudioSpec == Init /\ [][AudioNext]_vars

\* The lifecycle followed by the server's shutdown, and by a further shutdown call.
ShutdownNext ==
    \/ \E i \in Slots, s \in Sessions : start_music_generation(i, s, Recorded, SpecRuns)
    \/ \E i \in Slots, s \in Sessions : stop_music(i, s)
    \/ \E i \in Slots : start_created(i)
    \/ replacement_created
    \/ replacement_failed
    \/ \E i \in Slots : connection_start(i)
    \/ \E i \in Slots : start_started(i)
    \/ Release
    \/ \E t \in Runs : receive_audio(t)
    \/ shutdown_begin
    \/ \E s \in Sessions : shutdown_stop(s)
    \/ shutdown_close
    \/ shutdown_end

ShutdownSpec == Init /\ [][ShutdownNext]_vars

\* The lifecycle over a backend that accepts no further connection: on-demand
\* creation never succeeds, and the pool's one connection is reused by up to MaxRuns
\* session records.
RaceNext ==
    \/ \E i \in Slots, s \in Sessions : start_music_generation(i, s, Recorded, MaxRuns)
    \/ \E i \in Slots, s \in Sessions : stop_music(i, s)
    \/ \E i \in Slots, s \in Sessions : websocket_disconnect(i, s)
    \/ \E i \in Slots : start_create_failed(i)
    \/ \E i \in Slots : connection_start(i)
    \/ \E i \in Slots : start_started(i)
    \/ \E i \in Slots : start_send_failed(i)
    \/ Release
    \/ \E i \in Slots : release_connect_failed(i)
    \/ \E t \in Runs : receive_audio(t)

RaceSpec == Init /\ [][RaceNext]_vars

\* A session's frame loop, recorded or live, with the clock, stops and failures.
SchedNext ==
    \/ \E i \in SchedSlots, s \in Sessions, v \in Videos : start_music_generation(i, s, v, SchedRuns)
    \/ \E i \in SchedSlots, s \in Sessions : stop_music(i, s)
    \/ \E i \in Slots : connection_start(i)
    \/ \E i \in Slots : start_started(i)
    \/ ReleaseAlone
    \/ \E r \in Runs : sched_begin(r)
    \/ \E r \in Runs : loop_top(r)
    \/ \E r \in Runs : sleep_wake(r)
    \/ \E r \in Runs : backoff_wake(r)
    \/ \E r \in Runs : extract_frame(r)
    \/ \E r \in Runs : compare_frames(r)
    \/ \E r \in Runs : delta_returns(r)
    \/ \E r \in Runs : analyze_returns(r)
    \/ \E r \in Runs : push_returns(r)
    \/ \E r \in Runs : post(r)
    \/ Tick

SchedSpec == Init /\ [][SchedNext]_vars

\* One session id that is started, stopped and started again over a brief recorded
\* video, with the frame loops of its records and the clock.  A recorded loop never
\* backs off after an error (413-414), so backoff_wake has no part in it.
RestartNext ==
    \/ \E i \in SchedSlots : start_music_generation(i, "a", Brief, SpecRuns)
    \/ \E i \in SchedSlots : stop_music(i, "a")
    \/ \E i \in Slots : connection_start(i)
    \/ \E i \in Slots : start_started(i)
    \/ ReleaseAlone
    \/ \E r \in Runs : sched_begin(r)
    \/ \E r \in Runs : loop_top(r)
    \/ \E r \in Runs : sleep_wake(r)
    \/ \E r \in Runs : extract_frame(r)
    \/ \E r \in Runs : compare_frames(r)
    \/ \E r \in Runs : delta_returns(r)
    \/ \E r \in Runs : analyze_returns(r)
    \/ \E r \in Runs : push_returns(r)
    \/ \E r \in Runs : post(r)
    \/ Tick

RestartSpec == Init /\ [][RestartNext]_vars

\* A session's frame loop, recorded or live, where the comparison of two frames can
\* fail as well.
ErrorNext ==
    \/ SchedNext
    \/ \E r \in Runs : compare_failed(r)

ErrorSpec == Init /\ [][ErrorNext]_vars

\* The recorded-video loop of a session under seeks, with the clock, stops and failures.
SeekNext ==
    \/ \E i \in SchedSlots, s \in Sessions : start_music_generation(i, s, Short, SchedRuns)
    \/ \E i \in SchedSlots, s \in Sessions : stop_music(i, s)
    \/ \E i \in Slots : connection_start(i)
    \/ \E i \in Slots : start_started(i)
    \/ ReleaseAlone
    \/ \E s \in Sessions, n \in SeekTargets : update_playback_offset(s, n)
    \/ \E r \in Runs : sched_begin(r)
    \/ \E r \in Runs : loop_top(r)
    \/ \E r \in Runs : sleep_wake(r)
    \/ \E r \in Runs : extract_frame(r)
    \/ \E r \in Runs : compare_frames(r)
    \/ \E r \in Runs : delta_returns(r)
    \/ \E r \in Runs : analyze_returns(r)
    \/ \E r \in Runs : push_returns(r)
    \/ \E r \in Runs : post(r)
    \/ Tick

SeekSpec == Init /\ [][SeekNext]_vars

\* A step of a frame loop: the event loop runs a task that is ready, a sleep that is
\* due returns, and a call to the analyzer or to the connection returns or raises.
LoopStep ==
    \E r \in Runs :
        \/ loop_top(r)
        \/ sleep_wake(r)
        \/ extract_frame(r)
        \/ compare_frames(r)
        \/ delta_returns(r)
        \/ analyze_returns(r)
        \/ push_returns(r)
        \/ post(r)

\* The recorded-video loop of one session under seeks, stops and failures, on an
\* event loop that runs what is ready (a created frame task begins, a loop that can
\* step steps) and with a clock that goes on.
FairNext ==
    \/ \E i \in SchedSlots : start_music_generation(i, "a", Brief, SchedRuns)
    \/ \E i \in SchedSlots : stop_music(i, "a")
    \/ \E i \in Slots : connection_start(i)
    \/ \E i \in Slots : start_started(i)
    \/ ReleaseAlone
    \/ \E n \in SeekTargets : update_playback_offset("a", n)
    \/ \E r \in Runs : sched_begin(r)
    \/ LoopStep
    \/ Tick

FairSpec ==
    /\ Init /\ [][FairNext]_vars
    /\ WF_vars(\E r \in Runs : sched_begin(r))
    /\ WF_vars(LoopStep)
    /\ WF_vars(Tick)

\* Two livestream sessions side by side, their frame loops over the one
\* FrameExtractor of the orchestrator (orchestrator.py 30), and their stops; each
\* loop samples up to MaxLive frames.
LiveNext ==
    \/ \E i \in SchedSlots, s \in Sessions : start_music_generation(i, s, Live, SpecRuns)
    \/ \E i \in SchedSlots, s \in Sessions : stop_music(i, s)
    \/ \E i \in Slots : start_created(i)
    \/ replacement_created
    \/ \E i \in Slots : connection_start(i)
    \/ \E i \in Slots : start_started(i)
    \/ ReleaseAlone
    \/ \E r \in Runs : sched_begin(r)
    \/ \E r \in Runs : loop_top(r)
    \/ \E r \in Runs : sleep_wake(r)
    \/ \E r \in Runs : backoff_wake(r)
    \/ \E r \in Runs : Len(sampled[r]) < MaxLive /\ extract_frame(r)
    \/ \E r \in Runs : compare_frames(r)
    \/ \E r \in Runs : delta_returns(r)
    \/ \E r \in Runs : analyze_returns(r)
    \/ \E r \in Runs : push_returns(r)
    \/ \E r \in Runs : post(r)
    \/ Tick

LiveSpec == Init /\ [][LiveNext]_vars

\* Starts over a backend on which every connection setup succeeds, with nothing
\* released: a connection can become free only by being created.  A replacement task
\* is an asyncio task of its own, which the event loop runs once its connect() is
\* through.
ReplenishNext ==
    \/ \E i \in Slots, s \in Sessions : start_music_generation(i, s, Recorded, SpecRuns)
    \/ \E i \in Slots : start_created(i)
    \/ replacement_created
    \/ \E i \in Slots : connection_start(i)
    \/ \E i \in Slots : start_started(i)
    \/ \E t \in Runs : receive_audio(t)

ReplenishSpec == Init /\ [][ReplenishNext]_vars /\ WF_vars(replacement_created)

\* The start-up of a pool of BootSize connections, and starts and stops before,
\* during and after it.
PoolNext ==
    \/ initialize
    \/ setup_created
    \/ setup_failed
    \/ \E i \in Slots, s \in Sessions : start_music_generation(i, s, Recorded, SpecRuns)
    \/ \E i \in Slots, s \in Sessions : stop_music(i, s)
    \/ \E i \in Slots : connection_start(i)
    \/ \E i \in Slots : start_started(i)
    \/ Release
    \/ \E t \in Runs : receive_audio(t)

PoolSpec == Constructed /\ [][PoolNext]_vars

\* User prompts, and calls for ids that have no record, beside the recorded-video loop
\* of a session and its stop.
PromptNext ==
    \/ \E i \in SchedSlots, s \in Sessions : start_music_generation(i, s, Brief, SchedRuns)
    \/ \E i \in SchedSlots, s \in Sessions : stop_music(i, s)
    \/ \E i \in Slots : connection_start(i)
    \/ \E i \in Slots : start_started(i)
    \/ ReleaseAlone
    \/ \E i \in Slots, s \in Sessions, t \in Texts : handle_user_prompt(i, s, t)
    \/ \E i \in Slots : prompt_applied(i)
    \/ \E i \in SchedSlots, s \in Sessions : update_playback_offset_unknown(i, s)
    \/ \E i \in SchedSlots, s \in Sessions : export_unknown(i, s)
    \/ \E r \in Runs : sched_begin(r)
    \/ \E r \in Runs : loop_top(r)
    \/ \E r \in Runs : sleep_wake(r)
    \/ \E r \in Runs : extract_frame(r)
    \/ \E r \in Runs : compare_frames(r)
    \/ \E r \in Runs : delta_returns(r)
    \/ \E r \in Runs : analyze_returns(r)
    \/ \E r \in Runs : push_returns(r)
    \/ \E r \in Runs : post(r)
    \/ Tick

PromptSpec == Init /\ [][PromptNext]_vars

\* ------------------------------------------------------------ properties
\* The frame loop of run r has begun and has not ended.
Running(r) == sched[r].pc \notin {"none", "created", "done"}

\* C1: no connection is held by two different sessions at the same time: no
\* connection is the assignment-map value of two session ids, whatever acquire and
\* release calls, failed or overlapping at their awaits, came before.
C1_NoSharedConnection ==
    \A s1, s2 \in Sessions :
        (s1 # s2 /\ active_connections[s1] # 0)
            => active_connections[s1] # active_connections[s2]

\* C2: no audio chunk that originated from another session's generation is appended
\* to a session's audio buffer: every chunk a run's relay_audio received was generated
\* for that run.
C2_NoForeignAudio ==
    \A h \in Runs : \A k \in 1..Len(run[h].audio_chunks) : run[h].audio_chunks[k].gen = h

\* C3: when start fails in the connection's start after a connection was acquired
\* for s, no connection remains assigned to s once start has raised.
C3_FailedStartReleases ==
    [][\A i \in Slots :
          (req[i].op \in StartOps /\ req[i].pc = "a_send" /\ req'[i].pc = "raised")
              => active_connections'[req[i].sid] = 0]_vars

\* C4: when a stopped session's connection is reusable again (ready, inactive and
\* unassigned in the pool), the session's frame loop and the receive task its start
\* created have both terminated.
C4_TerminatedBeforeReusable ==
    \A r \in Runs :
        (run[r].stage = "record" /\ ~run[r].is_active /\ Available(run[r].conn))
            => (~Running(r) /\ ~TaskAlive(r))

\* C5: once is_active of a session is false, its frame loop samples no further
\* frame, also when it was in its cadence sleep at the moment of the stop.
C5_NoSampleAfterStop ==
    [][\A r \in Runs :
          (run[r].stage = "record" /\ ~run[r].is_active)
              => Len(sampled'[r]) <= Len(sampled[r])]_vars

\* The latest seek of run r came while the recorded loop slept before sampling the
\* pending offset seek_p, and went to another offset.
SleepSeek(r) == hist[r].seek_p # 0 /\ hist[r].seek_p # hist[r].seek_n

\* C6 (as stated): after a seek to n during the sleep before pending offset p, the
\* next frame sampled targets n, and no frame for p or for p + frame_interval is
\* sampled after the seek (the frame for n itself apart, where n is one of the two).
C6_NoFrameForPending ==
    \A r \in Runs :
        SleepSeek(r) =>
            \A k \in 1..Len(sampled[r]) :
                /\ k = 1 => sampled[r][k] = hist[r].seek_n
                /\ sampled[r][k] \notin
                       {hist[r].seek_p, hist[r].seek_p + frame_interval} \ {hist[r].seek_n}

\* C6: after a seek to n during the sleep before pending offset p (n # p), the next
\* frame sampled targets n, and every frame sampled after the seek is for n or for an
\* offset a whole number of frame intervals beyond n.
C6_NextFrameTargetsSeek ==
    \A r \in Runs :
        SleepSeek(r) =>
            \A k \in 1..Len(sampled[r]) :
                /\ k = 1 => sampled[r][k] = hist[r].seek_n
                /\ sampled[r][k] >= hist[r].seek_n
                /\ (sampled[r][k] - hist[r].seek_n) % frame_interval = 0

\* A seek back from pending offset p during the sleep, after which the loop has
\* sampled the seek target and then p again.
C6_Witness ==
    \E r \in Runs :
        /\ SleepSeek(r)
        /\ Len(sampled[r]) >= 2
        /\ sampled[r][1] = hist[r].seek_n
        /\ sampled[r][2] = hist[r].seek_p

\* C7: after a seek to an offset n below the duration, at whatever point of the
\* recorded loop it comes, and while the session stays active (and no frame has
\* failed), the loop does not skip the seek target: it samples no frame beyond n
\* before it has sampled a frame for n.
C7_SeekTargetNotSkipped ==
    \A r \in Runs :
        (/\ hist[r].seeks > 0
         /\ hist[r].errors = 0
         /\ run[r].is_active
         /\ hist[r].seek_n < run[r].video.duration)
            => \A k \in 1..Len(sampled[r]) :
                   sampled[r][k] > hist[r].seek_n
                       => \E j \in 1..(k - 1) : sampled[r][j] = hist[r].seek_n

\* A recorded run without seek, stop or frame failure so far.
CleanRun(r) ==
    /\ run[r].stage = "record"
    /\ ~run[r].video.is_live
    /\ run[r].is_active
    /\ hist[r].seeks = 0
    /\ hist[r].errors = 0

\* C8: with no seek, no stop and no frame failure, the recorded loop samples frames
\* at exactly the offsets first_frame_offset, first_frame_offset + frame_interval, ...
\* below the duration, each once and in increasing order, and it terminates as soon
\* as the offset has reached the duration.
C8_NominalSchedule ==
    \A r \in Runs :
        CleanRun(r) =>
            /\ \A k \in 1..Len(sampled[r]) :
                  /\ sampled[r][k] = first_frame_offset + (k - 1) * frame_interval
                  /\ sampled[r][k] < run[r].video.duration
            /\ (Running(r) /\ sched[r].playback_offset >= run[r].video.duration)
                  => sched[r].pc = "top"
            /\ sched[r].pc = "done"
                  => /\ sched[r].playback_offset >= run[r].video.duration
                     /\ first_frame_offset + Len(sampled[r]) * frame_interval
                            >= run[r].video.duration

\* A clean run over the 100-second video has ended after its nine frames.
C8_Witness ==
    \E r \in Runs :
        /\ CleanRun(r)
        /\ run[r].video = Recorded
        /\ sched[r].pc = "done"
        /\ sampled[r] = <<10, 20, 30, 40, 50, 60, 70, 80, 90>>

\* C9: for a sample whose difference against the previous frame is below the
\* threshold, the loop makes no analysis call, leaves the composition context
\* unchanged and pushes no prompt: the comparison leads straight to the end of the
\* iteration, and neither it nor that end changes the context or writes a prompt.
C9_BelowThresholdSkips ==
    [][\A r \in Runs :
          /\ (sched'[r].compared /\ sched'[r].difference < frame_diff_threshold)
                => (sched'[r].pc = "post" /\ ctx' = ctx /\ sent' = sent)
          /\ (sched[r].compared /\ sched[r].difference < frame_diff_threshold)
                => (sched'[r].pc \notin Awaiting /\ ctx' = ctx /\ sent' = sent)]_vars

\* A non-initial sample was compared and scored below the threshold.
C9_Witness ==
    \E r \in Runs :
        /\ sched[r].previous_frame
        /\ sched[r].compared
        /\ sched[r].difference < frame_diff_threshold
        /\ sched[r].pc = "post"

\* C10: an exception caught in the frame loop, recorded or live, leaves is_active
\* true and is followed by a back-off sleep before the next sampling attempt.
C10_BackoffAfterFailure ==
    [][\A r \in Runs :
          hist'[r].errors = hist[r].errors + 1
              => (sched'[r].pc = "backoff" /\ run'[r].is_active = run[r].is_active)]_vars

\* C11: a stop of a session that is already stopped is a no-op on the session record:
\* the stop time the first stop recorded is not written again.
C11_SecondStopNoOp ==
    [][\A r \in Runs : run[r].stopped_at = "past" => run'[r].stopped_at = "past"]_vars

\* C12: when a start for an id that already has a record acquires its connection, the
\* old record is removed from the table and the old connection has been released (the
\* connection just acquired is the only one assigned to the id); and when such a start
\* returns, exactly one connection is assigned to the id, and the id's record is the
\* new one, for the new video, whose audio buffer holds no chunk of another session.
C12_RestartCleansUp ==
    [][\A i \in Slots :
          /\ (req'[i].op = "restart" /\ req'[i].pc = "a_meta" /\ req[i].pc # "a_meta")
                => LET s == req'[i].sid IN
                   /\ active_sessions'[s] = 0
                   /\ \A c \in Conns : conn'[c].session_id = s => c = req'[i].c
          /\ (req[i].op = "restart" /\ req[i].pc = "a_send" /\ req'[i].pc = "returned")
                => LET s == req[i].sid
                       r == req[i].r
                   IN
                   /\ \A c \in Conns : conn'[c].session_id = s <=> c = req[i].c
                   /\ active_connections'[s] = req[i].c
                   /\ active_sessions'[s] = r
                   /\ run'[r].video = req[i].v
                   /\ \A k \in 1..Len(run'[r].audio_chunks) : run'[r].audio_chunks[k].gen = r]_vars

\* The prompt p holds the text t: the fragments of t, in their order and side by side.
Contains(p, t) == \E k \in 0..(Len(p) - Len(t)) : SubSeq(p, k + 1, k + Len(t)) = t

\* No fragment of the text t matches a pattern the sanitiser removes.
Clean(t) == \A k \in 1..Len(t) : Kept(t[k])

\* Handler i has just run handle_user_prompt up to its send for a session with a record.
PromptStep(i) == req'[i].op = "prompt" /\ req'[i].pc = "a_push" /\ req[i].pc # "a_push"

\* The message handle_user_prompt of handler i has just written.
Pushed(i) == sent'[req'[i].c][Len(sent'[req'[i].c])]

\* The text handle_user_prompt of handler i has just added to the context.
Directive(i) == ctx'[req'[i].r].user_prompts[Len(ctx'[req'[i].r].user_prompts)]

LookupOps == {"prompt", "seek", "export"}

\* C14: handle_user_prompt, update_playback_offset and export_audio_as_wav called with
\* an id that has no record raise, and leave the session table, every composition
\* context, every record (its playback offset and anchor with it) and the pool as
\* they were; and no user prompt is taken further for an id without a record.
C14_UnknownIdRejected ==
    [][\A i \in Slots :
          /\ (req'[i].pc = "raised" /\ req'[i].op \in LookupOps /\ req'[i] # req[i])
                => /\ active_sessions[req'[i].sid] = 0
                   /\ UNCHANGED <<active_sessions, ctx, run, pool, conn, active_connections,
                                  bg, sent, sched>>
          /\ (req'[i].op = "prompt" /\ req'[i].pc = "a_push" /\ req[i].pc # "a_push")
                => active_sessions[req'[i].sid] # 0]_vars

\* A prompt for an id without a record was rejected while another session holds a
\* record, a connection and a user prompt of its own.
C14_Witness ==
    \E i \in Slots, s \in Sessions :
        /\ req[i].pc = "raised"
        /\ req[i].op = "prompt"
        /\ active_sessions[req[i].sid] = 0
        /\ active_sessions[s] # 0
        /\ active_connections[s] # 0
        /\ ctx[active_sessions[s]].user_prompts # <<>>

\* The record of run r is in the session table and has been stopped.
StoppedRecord(r) ==
    /\ run[r].stage = "record"
    /\ ~run[r].is_active
    /\ \E s \in Sessions : active_sessions[s] = r

\* A POST /api/music/stop handler takes a step.
StopStep == \E i \in Slots : (req[i].op = "stop" \/ req'[i].op = "stop") /\ req'[i] # req[i]

\* C15: a stopped record keeps its place in the table and its audio buffer: while it
\* is in the table the status call reports it as existing and inactive and the export
\* returns the chunks buffered at the stop (no step changes the buffer or makes the
\* record active again), and no step of a stop takes the record out of the table.
C15_StoppedRecordKept ==
    [][\A s \in Sessions :
          LET r == active_sessions[s] IN
          (r # 0 /\ StoppedRecord(r)) =>
              /\ get_session_status(s) = [exists |-> TRUE, is_active |-> FALSE]
              /\ ~export_audio_as_wav(s).raised
                    => export_audio_as_wav(s).data = run[r].audio_chunks
              /\ run'[r].audio_chunks = run[r].audio_chunks
              /\ ~run'[r].is_active
              /\ StopStep => active_sessions'[s] = r]_vars

\* C16: each connection in the assignment map is marked as taken.  LyriaConnection
\* has no status "active": a connection is taken when acquire_connection's test (307)
\* no longer accepts it, that is when it is not at once ready, inactive and without a
\* session id.
C16_AssignedIsTaken ==
    \A s \in Sessions :
        active_connections[s] # 0 => ~Available(active_connections[s])

\* C18: when the on-demand creation inside acquire_connection fails, the call raises
\* and the pool is as before the call: neither the step that fails nor the stretch of
\* a first start that led to the creation changes the pool list, a connection, the
\* assignment map or the replacement tasks.
C18_FailedCreationLeavesPool ==
    [][\A i \in Slots :
          /\ (req[i].pc = "a_create" /\ req'[i].pc # "a_create")
                => \/ req'[i].pc = "a_meta"
                   \/ /\ req'[i].pc = "raised"
                      /\ UNCHANGED <<pool, conn, active_connections, bg, active_sessions>>
          /\ (Free(i) /\ req'[i].op = "start" /\ req'[i].pc = "a_create")
                => UNCHANGED <<pool, conn, active_connections, bg>>]_vars

\* An on-demand creation has failed while the pool's connection is held by a session:
\* the call has raised, and the other connection has not come into being.
C18_Witness ==
    \E i \in Slots :
        /\ req[i].pc = "raised"
        /\ req[i].op = "create"
        /\ Len(pool) = PoolSize
        /\ \E s \in Sessions : active_connections[s] # 0
        /\ ~HasAvailable(conn)
        /\ bg = 0
        /\ \A j \in Slots : req[j].pc \notin {"a_stop", "a_ws_close", "a_connect", "a_setup",
                                              "a_close_stop", "a_send"}
        /\ \A c \in Conns : conn[c].status \in {"ready", "disconnected"}

\* Handler i finishes release_connection in this step: the reset (344-346) and the
\* deletion of the map entry (348) have run without raising.  (A restarting start is
\* left out: it acquires a connection again in the same stretch.)
ReleaseCompletes(i) ==
    /\ req[i].pc = "a_setup"
    /\ req[i].op \in {"stop", "disconnect"}
    /\ req'[i] # req[i]
    /\ req'[i].op # "connect"
    /\ active_connections[req[i].sid] # 0

\* C20: when release_connection completes for a session whose connection is c, c is
\* as a freshly created connection is: status ready, is_active false, no session id,
\* no audio handler, no receive task stored or still running on it, a websocket that
\* carries no generation; and the session has no entry in the assignment map.
C20_ReleasedIsFresh ==
    [][\A i \in Slots :
          ReleaseCompletes(i) =>
              LET c == req[i].c IN
              /\ conn'[c] = ReadyConnection
              /\ \A t \in Runs : TaskAlive(t)' => task'[t].conn # c
              /\ active_connections'[req[i].sid] = 0]_vars

\* C19: if one of the connection setups of initialize has raised, neither the pool nor
\* the orchestrator is marked initialized, at that moment or later; and while the
\* pool is not marked initialized no session is served, whatever connections the
\* other setups have put into the pool: no connection is assigned, no record or relay
\* exists, and no call is under way: every start so far was rejected.
C19_FailedSetupNeverServes ==
    /\ startup.failed > 0 => (~is_initialized.pool /\ ~is_initialized.orchestrator)
    /\ ~is_initialized.pool =>
           /\ \A s \in Sessions : active_connections[s] = 0 /\ active_sessions[s] = 0
           /\ \A c \in Conns : conn[c].session_id = NoSession /\ ~conn[c].is_active
           /\ \A r \in Runs : run[r].stage = "none"
           /\ \A i \in Slots : Free(i)

\* One of two setups has raised and the other has put its connection into the pool;
\* a start that came afterwards was rejected.
C19_Witness ==
    /\ startup.pc = "raised"
    /\ startup.pending = 0
    /\ startup.failed = 1
    /\ Len(pool) = 1
    /\ Available(pool[1])
    /\ \E i \in Slots : req[i].pc = "raised" /\ req[i].op = "start"

\* C17: a start that finds no free connection suspends in one on-demand creation;
\* when that returns, the pool has grown by exactly that connection, it is assigned to
\* the start's session, and one replacement creation has been scheduled and is still
\* pending while the start goes on; and, every setup succeeding, a pending replacement
\* leads to a pool that holds a ready, unassigned connection again.
C17_OnDemandAndReplacement ==
    /\ [][\A i \in Slots :
             /\ (Free(i) /\ req'[i].op = "start" /\ req'[i].pc = "a_create")
                   => ~HasAvailable(conn)
             /\ (req[i].pc = "a_create" /\ req'[i].pc # "a_create")
                   => /\ req'[i].pc = "a_meta"
                      /\ Len(pool') = Len(pool) + 1
                      /\ SubSeq(pool', 1, Len(pool)) = pool
                      /\ active_connections'[req[i].sid] = pool'[Len(pool')]
                      /\ conn'[pool'[Len(pool')]].session_id = req[i].sid
                      /\ conn'[pool'[Len(pool')]].status = "ready"
                      /\ bg' = bg + 1]_vars
    /\ (bg > 0) ~> HasAvailable(conn)

\* An on-demand connection serves a session whose start has returned, and the
\* replacement has restored a free connection.
C17_Witness ==
    /\ Len(pool) = PoolSize + 2
    /\ bg = 0
    /\ \E s \in Sessions :
          /\ active_connections[s] = pool[PoolSize + 1]
          /\ active_sessions[s] # 0
    /\ Available(pool[PoolSize + 2])

\* ------------------------------------------------------------ C21
\* Connection c is halted and closed: it generates nothing, its websocket is closed
\* and no receive task reads that websocket.  (A websocket that connect() replaced
\* without closing it is no longer the connection's: shutdown cannot reach it.)
HaltedIn(cn, tk, c) ==
    /\ cn[c].status = "closed"
    /\ ~cn[c].ws_open
    /\ ~cn[c].is_active
    /\ cn[c].recv_task = 0
    /\ \A t \in Runs : tk[t].st = "cur" => tk[t].conn # c

\* A shutdown call returns in this step.
ShutdownReturns == teardown'.calls = teardown.calls + 1

\* A step of a shutdown call made after an earlier one returned, no connection
\* having been made in between.
LaterShutdownStep ==
    /\ teardown.calls > 0
    /\ teardown' # teardown
    /\ pool = <<>>

LastOf(seq, n) ==
    IF Len(seq) <= n THEN seq ELSE SubSeq(seq, Len(seq) - n + 1, Len(seq))

\* C22: after any sequence of add_user_prompt and update_from_analysis calls, the
\* user prompts are the last min(n, 5) prompts given, in the order given, and the
\* recent updates the last min(m, 3) analyses given, in the order given; neither
\* list is ever longer than its capacity.
C22_WindowsHoldTheLast ==
    given.made =>
        /\ ctx[1].user_prompts = LastOf(given.prompts, max_user_prompts)
        /\ ctx[1].recent_updates = LastOf(given.analyses, max_recent_updates)
        /\ Len(ctx[1].user_prompts) <= max_user_prompts
        /\ Len(ctx[1].recent_updates) <= max_recent_updates

\* Both lists have evicted an entry that differs from the one that came in.
C22_Witness ==
    /\ Len(given.prompts) > max_user_prompts
    /\ Len(given.analyses) > max_recent_updates
    /\ given.prompts[1] # given.prompts[Len(given.prompts)]
    /\ given.analyses[1] # given.analyses[Len(given.analyses)]

\* ------------------------------------------------------------ C23
\* The part of a prompt that holds the user prompts retained of those given.
Requests ==
    IF given.prompts = <<>> THEN <<>>
    ELSE <<"User requests:">> \o Joined(LastOf(given.prompts, max_user_prompts))

\* What generate_lyria_prompt returns for the calls made so far: the retained user
\* prompts first, then the analysis it was asked with or, without one, the summary.
Composed ==
    Requests \o (IF given.asked # <<>> THEN given.asked ELSE Summary(ctx[1].current_state))

\* What update_prompt sends for the prompt just generated.
Outbound == sanitize_prompt_for_lyria(given.out)

Retitled(title) == [ctx[1] EXCEPT !.video_title = title]

\* A generate_lyria_prompt call on the context under test returns in this step.
Generates == given'.out # <<>> /\ given.out = <<>>

\* C24: generate_lyria_prompt returns, for the same argument, the same text for two
\* contexts that differ in the video title only, and it changes no field of the
\* context it is called on.
C24_TitleNeverFlows ==
    /\ [](given.out # <<>> =>
            \A title \in Titles :
                generate_lyria_prompt(Retitled(title), given.asked) = given.out)
    /\ [][Generates => ctx' = ctx]_vars

\* A prompt was generated with an analysis on a context that has a
\* title and a user prompt.
C24_Witness ==
    /\ given.out # <<>>
    /\ given.asked \in Notes
    /\ ctx[1].video_title = "Artist - Song"
    /\ ctx[1].user_prompts # <<>>
    /\ ctx[1].recent_updates # <<>>

\* ------------------------------------------------------------ C25
\* The chunks of a sequence stand in the order in which the server received them,
\* none of them twice.
InOrderReceived(chunks) ==
    \A j, k \in 1..Len(chunks) : j < k => chunks[j].n < chunks[k].n

\* Every chunk of the first sequence is one of the second.
AllOf(part, chunks) ==
    \A j \in 1..Len(part) : \E k \in 1..Len(chunks) : chunks[k] = part[j]

\* The first sequence is the beginning of the second.
Begins(old, new) == Len(old) <= Len(new) /\ SubSeq(new, 1, Len(old)) = old

\* C25: the chunks a session's handler receives are appended to its buffer and handed
\* to its client websocket in the order received, each at most once; a send that
\* fails leaves the buffer as the append made it, no step removes or reorders chunks
\* of a buffer, and export_audio_as_wav returns the chunks of the buffer in its order.
C25_AudioInOrder ==
    /\ [](\A r \in Runs :
            /\ InOrderReceived(run[r].audio_chunks)
            /\ InOrderReceived(run[r].delivered)
            /\ AllOf(run[r].delivered, run[r].audio_chunks))
    /\ [](\A s \in Sessions :
            ~export_audio_as_wav(s).raised
                => export_audio_as_wav(s).data = run[active_sessions[s]].audio_chunks)
    /\ [][\A r \in Runs :
            /\ Begins(run[r].audio_chunks, run'[r].audio_chunks)
            /\ Begins(run[r].delivered, run'[r].delivered)
            /\ Len(run'[r].audio_chunks) > Len(run[r].audio_chunks)
                  => Len(run'[r].audio_chunks) = Len(run[r].audio_chunks) + 1]_vars

\* A session's buffer holds three chunks of which the client websocket took the
\* first and the last but not the one in between, and the buffer was exported.
C25_Witness ==
    \E i \in Slots, s \in Sessions :
        /\ req[i].op = "export"
        /\ req[i].sid = s
        /\ active_sessions[s] # 0
        /\ LET r == active_sessions[s] IN
           /\ Len(run[r].audio_chunks) = 3
           /\ run[r].delivered = <<run[r].audio_chunks[1], run[r].audio_chunks[3]>>

\* ------------------------------------------------------------ C26
\* The arguments generate_lyria_prompt is called with: a user prompt or an analysis.
PromptArgs == Texts \cup {Analysis(n) : n \in 0..MaxSamples}

\* The last message written to connection c.
LastSent(c) == sent'[c][Len(sent'[c])]

\* C26: every prompt written to a connection, by a frame loop or by
\* handle_user_prompt, is written whole behind the messages written before, in the
\* stretch that composed it from the context as it is then; so the last prompt on a
\* connection is composed from a context no older than that of any prompt before it.
C26_PromptsInComposedOrder ==
    [][\A c \in Conns :
          sent'[c] # sent[c] =>
              /\ sent'[c] = Append(sent[c], LastSent(c))
              /\ \E a \in PromptArgs :
                    LastSent(c).text
                        = sanitize_prompt_for_lyria(
                              generate_lyria_prompt(ctx'[LastSent(c).run], a))]_vars

\* handle_user_prompt wrote its prompt while the frame loop of the session was
\* suspended in the send of the prompt it wrote before.
C26_Witness ==
    \E i \in Slots :
        /\ req[i].op = "prompt"
        /\ req[i].pc = "a_push"
        /\ sched[req[i].r].pc = "push"
        /\ Len(sent[req[i].c]) = 2
        /\ ~Contains(sent[req[i].c][1].text, <<"User requests:">>)
        /\ Contains(sent[req[i].c][2].text, <<"User requests:">>)

\* ------------------------------------------------------------ C27
\* update_playback_offset is called for the record r in this step.
Seeks(r) == hist'[r].seeks = hist[r].seeks + 1

\* The recorded loop of r computes its wait in this step (294-298).
ComputesWait(r) ==
    /\ ~run[r].video.is_live
    /\ sched[r].pc = "top"
    /\ sched'[r].pc \in {"sleep", "extract"}

\* The recorded loop of r samples a frame in this step (316).
Samples(r) ==
    /\ ~run[r].video.is_live
    /\ sched[r].pc = "extract"
    /\ Len(sampled'[r]) = Len(sampled[r]) + 1

\* The anchor the loop of r measures its time from is the one of the session record.
SessionAnchor(r) == sched[r].real_time_elapsed = run[r].real_time_elapsed

\* C27: a seek to n writes the offset n and the anchor now - n in one step, and every
\* wait the recorded loop computes and every frame it samples after a seek is timed
\* from the anchor of the latest seek, whatever n was.
C27_SeekAnchorsEveryWait ==
    [][\A r \in Runs :
          /\ Seeks(r) =>
                /\ run'[r].playback_offset = hist'[r].seek_n
                /\ run'[r].real_time_elapsed = hist'[r].seek_n
                /\ sched'[r] = sched[r]
          /\ (hist[r].seeks > 0 /\ hist[r].errors = 0 /\ (ComputesWait(r) \/ Samples(r)))
                => SessionAnchor(r)]_vars

\* ------------------------------------------------------------ C28
\* The loop of r takes a step in which a call of it fails.
Fails(r) == sched'[r].pc # sched[r].pc /\ faults' = faults + 1

\* extract_frame, the comparison or the analysis of the loop of r fails in this step.
SamplingFails(r) == sched[r].pc = "extract" /\ Fails(r)
ComparisonFails(r) == sched[r].pc = "compare" /\ Fails(r)
AnalysisFails(r) == sched[r].pc \in {"delta", "analyze"} /\ Fails(r)

\* The loop of r is in an iteration whose comparison has failed.
ComparisonFailed(r) == sched[r].compared /\ sched[r].difference = assumed_difference

\* The context of r changes or a prompt composed for r is written in this step.
Writes(r) ==
    \/ ctx'[r] # ctx[r]
    \/ \E c \in Conns : sent'[c] # sent[c] /\ sent'[c][Len(sent'[c])].run = r

\* C28 (as stated): an iteration in which the sampling, the comparison or the analysis
\* of a frame fails changes no context and writes no prompt.
C28_FailedIterationWritesNothing ==
    [][\A r \in Runs :
          (SamplingFails(r) \/ ComparisonFails(r) \/ AnalysisFails(r) \/ ComparisonFailed(r))
              => ~Writes(r)]_vars

\* C28: a failed sampling and a failed analysis end the iteration with no context
\* changed and no prompt written, and nothing is written before an analysis has
\* returned; a failed comparison counts as a complete difference, so its iteration
\* goes on to the analysis and writes what that calls for.
C28_FailureEndsIteration ==
    [][\A r \in Runs :
          /\ (SamplingFails(r) \/ AnalysisFails(r))
                => ~Writes(r) /\ sched'[r].pc \in {"top", "backoff"}
          /\ ComparisonFails(r)
                => /\ ~Writes(r)
                   /\ sched'[r].pc = "delta"
                   /\ sched'[r].difference = assumed_difference
          /\ Writes(r) => sched[r].pc \in {"delta", "analyze"} /\ faults' = faults]_vars

\* The comparison of an iteration failed, its analysis called for a change, and the
\* prompt composed from the changed context is on the connection.
C28_Witness ==
    \E r \in Runs :
        /\ ComparisonFailed(r)
        /\ sched[r].pc = "push"
        /\ ctx[r].recent_updates # <<>>
        /\ sent[run[r].conn] # <<>>
        /\ sent[run[r].conn][Len(sent[run[r].conn])].run = r

\* ------------------------------------------------------------ C29
\* The time, counted from the anchor of the session record of r, at which the frame
\* the loop of r is at may be processed: its offset less the processing buffer.
TargetTime(r) == sched[r].playback_offset - processing_buffer

\* C29: while no frame has failed, the recorded loop samples no frame before the
\* time elapsed since the session's anchor (the one of the latest seek, if any) has
\* reached the frame's offset less the processing buffer, and it does not sleep when
\* that time has passed already.
C29_NeverSampledEarly ==
    [][\A r \in Runs :
          hist[r].errors = 0 =>
              /\ Samples(r) => run[r].real_time_elapsed >= TargetTime(r)
              /\ (ComputesWait(r) /\ run[r].real_time_elapsed >= TargetTime(r))
                    => sched'[r].pc = "extract"]_vars

\* ------------------------------------------------------------ C30
\* The frame loops that are inside an iteration, asleep or at an await of it: each
\* has passed its loop test and has not come back to it.
Iterating == {r \in Runs : sched[r].pc \in Suspended \ {"none", "created", "done"}}

\* C30: while the session id has an active record, at most one frame loop started
\* for that id is running, also after a restart of the id and after a stop and a
\* new start.
C30_OneLoopPerSession ==
    (active_sessions["a"] # 0 /\ run[active_sessions["a"]].is_active)
        => Cardinality(Iterating) <= 1

\* ------------------------------------------------------------ C31
\* The loop test of the recorded loop of r lets it go on.
GoesOn(r) == run[r].is_active /\ sched[r].playback_offset < run[r].video.duration

\* C31: the recorded loop ends at its loop test and nowhere else, and the test ends it
\* exactly when its offset has reached the duration or the session is not active;
\* with finitely many seeks and failures, on an event loop that runs what is ready,
\* a loop that has begun ends.
C31_LoopTerminates ==
    /\ [][\A r \in Runs :
             ~run[r].video.is_live =>
                /\ (sched[r].pc = "top" /\ sched'[r] # sched[r])
                      => (sched'[r].pc = "done" <=> ~GoesOn(r))
                /\ (sched'[r].pc = "done" /\ sched[r].pc # "done")
                      => sched[r].pc = "top"]_vars
    /\ \A r \in Runs : Running(r) ~> (sched[r].pc = "done")

\* A loop has ended at the duration of its video, its session still active, after a
\* seek and a failure.
C31_Witness ==
    \E r \in Runs :
        /\ sched[r].pc = "done"
        /\ run[r].is_active
        /\ sched[r].playback_offset >= run[r].video.duration
        /\ hist[r].seeks > 0
        /\ hist[r].errors > 0

\* ------------------------------------------------------------ C32
\* The keyword categories of each descriptor in their order of priority, and the
\* values a descriptor can hold.
MoodOrder ==
    <<[words |-> {"intense", "dramatic"}, value |-> "intense"],
      [words |-> {"calm", "peaceful"}, value |-> "calm"],
      [words |-> {"upbeat", "energetic"}, value |-> "upbeat"],
      [words |-> {"dark", "suspenseful"}, value |-> "dark"]>>
TempoOrder ==
    <<[words |-> {"fast", "quick"}, value |-> "fast"],
      [words |-> {"slow"}, value |-> "slow"]>>
IntensityOrder ==
    <<[words |-> {"building", "crescendo"}, value |-> "building"],
      [words |-> {"peak", "climax"}, value |-> "peak"],
      [words |-> {"fading", "diminishing"}, value |-> "fading"]>>

Moods == {"neutral", "intense", "calm", "upbeat", "dark"}
Tempos == {"moderate", "fast", "slow"}
Intensities == {"medium", "building", "peak", "fading"}

\* The value of the first category of order that has a keyword in a, or old if none has.
FirstMatch(order, a, old) ==
    IF \E k \in 1..Len(order) : AnyWord(a, order[k].words)
    THEN order[CHOOSE k \in 1..Len(order) :
                  /\ AnyWord(a, order[k].words)
                  /\ \A j \in 1..(k - 1) : ~AnyWord(a, order[j].words)].value
    ELSE old

\* The step applies an analysis to the context under test.
Applies == Len(given'.analyses) = Len(given.analyses) + 1

\* C32: an analysis sets each descriptor by the first category, in the descriptor's
\* order of priority, that has a keyword in the text, and leaves a descriptor none of
\* whose keywords occur; after any applications each descriptor holds a value of its
\* domain.
C32_FirstCategoryWins ==
    [][/\ Applies =>
            LET a == given'.analyses[Len(given'.analyses)]
                old == ctx[1].current_state
                new == ctx'[1].current_state
            IN /\ new.mood = FirstMatch(MoodOrder, a, old.mood)
               /\ new.tempo = FirstMatch(TempoOrder, a, old.tempo)
               /\ new.intensity = FirstMatch(IntensityOrder, a, old.intensity)
       /\ ctx'[1].current_state.mood \in Moods
       /\ ctx'[1].current_state.tempo \in Tempos
       /\ ctx'[1].current_state.intensity \in Intensities]_vars

\* Analyses that named two moods and two intensities were applied, and one that
\* named no tempo left the tempo an earlier one had set.
C32_Witness ==
    /\ Len(given.analyses) >= 3
    /\ given.analyses[1] = <<"slow", "breakfast">>
    /\ given.analyses[2] = <<"calm", "Dramatic">>
    /\ given.analyses[3] = <<"fading", "climax">>
    /\ ctx[1].current_state = [mood |-> "intense", tempo |-> "fast", intensity |-> "peak"]

\* ------------------------------------------------------------ C33
\* Run r is the record of a session to which connection c is assigned.
HoldsConnection(r, c) ==
    \E s \in Sessions : active_sessions[s] = r /\ active_connections[s] = c

\* C33: a prompt is written to a connection only for the session the connection is
\* assigned to: once stop has released the connection of a session, neither the
\* frame loop of the session nor a user prompt for it writes to that connection.
C33_PromptOnlyForHolder ==
    [][\A c \in Conns :
          sent'[c] # sent[c] => HoldsConnection(LastSent(c).run, c)]_vars

\* ------------------------------------------------------------ C34
\* Handler i runs a stop request or the disconnect handler and takes a step.
StopSteps(i) == req[i].op \in {"stop", "disconnect"} /\ req'[i] # req[i]

\* C34: stops of one session that overlap both complete without raising, unless a
\* reconnect failed, and a stop does not touch a connection that another session has
\* meanwhile acquired.
C34_OverlappingStopsComplete ==
    [][\A i \in Slots :
          StopSteps(i) =>
             /\ req'[i].pc = "raised" => faults' = faults + 1
             /\ conn[req[i].c].session_id \notin {req[i].sid, NoSession}
                   => /\ conn'[req[i].c] = conn[req[i].c]
                      /\ active_connections' = active_connections]_vars

\* ------------------------------------------------------------ C35
\* A start, a stop or a disconnect handler for session id s is in flight.
InProgress(s) == \E i \in Slots : ~Free(i) /\ req[i].sid = s /\ req[i].op # "prompt"

\* C35: while no start and no stop of a session id is in progress, a connection is
\* assigned to the id only if the session table holds an active record for it.
C35_AssignedOnlyToActive ==
    \A s \in Sessions :
        (~InProgress(s) /\ active_connections[s] # 0)
            => (active_sessions[s] # 0 /\ run[active_sessions[s]].is_active)

\* ------------------------------------------------------------ C36
\* An iteration of the loop of r raises in this step.
Raises(r) == hist'[r].errors = hist[r].errors + 1

\* C36: in the recorded loop the session's offset changes only by a seek or, at the end
\* of an iteration that did not raise, by frame_interval (its first value is written
\* when the loop begins); an iteration that raises leaves the session's offset and the
\* loop's as they are and returns to the loop test with no wait to run, from where the
\* loop, if it goes on, samples the frame of the same offset again.
C36_OffsetMovesByStepOrSeek ==
    [][\A r \in Runs :
          /\ run'[r].playback_offset # run[r].playback_offset
                => \/ Seeks(r)
                   \/ sched[r].pc = "created"
                   \/ /\ sched[r].pc = "post"
                      /\ run'[r].playback_offset = run[r].playback_offset + frame_interval
          /\ Raises(r)
                => /\ run'[r].playback_offset = run[r].playback_offset
                   /\ sched'[r].playback_offset = sched[r].playback_offset
                   /\ sched'[r].pc = "top"
                   /\ WaitTime(sched'[r]) <= 0
          /\ (sched[r].pc = "top" /\ sched'[r] # sched[r] /\ GoesOn(r) /\ WaitTime(sched[r]) <= 0)
                => /\ sched'[r].pc = "extract"
                   /\ sched'[r].playback_offset = sched[r].playback_offset
          /\ Samples(r)
                => sampled'[r][Len(sampled'[r])] = sched[r].playback_offset]_vars

\* After an iteration of a loop raised, the frame of the same offset was sampled again
\* and the loop went on to the next offset.
C36_Witness ==
    \E r \in Runs :
        /\ hist[r].errors > 0
        /\ \E k \in 1..(Len(sampled[r]) - 1) : sampled[r][k] = sampled[r][k + 1]
        /\ run[r].playback_offset > sampled[r][Len(sampled[r])]

\* ------------------------------------------------------------ C37
\* C37: once a shutdown has completed the pool list is empty and stays empty (the
\* pool is not initialized again here), whatever connection setup was in flight
\* when the shutdown ran.
C37_EmptyAfterShutdown == teardown.calls > 0 => pool = <<>>

\* ------------------------------------------------------------ C38
\* C38: when every acquire and release call made so far has completed, the two
\* records of an assignment agree: a connection of the pool carries the id of a
\* session exactly if it is the assignment-map value for that id (stated for the
\* calls none of which failed).
C38_AssignmentRecordsAgree ==
    (faults = 0 /\ \A i \in Slots : Free(i))
        => \A s \in Sessions : \A k \in 1..Len(pool) :
              conn[pool[k]].session_id = s <=> active_connections[s] = pool[k]

\* ------------------------------------------------------------ C39
\* The pool list of the next state begins with the pool list of this one.
PoolKept == Len(pool') >= Len(pool) /\ SubSeq(pool', 1, Len(pool)) = pool

\* The awaits of release_connection at which a handler is suspended.
Releasing == {"a_stop", "a_close_stop", "a_ws_close", "a_connect", "a_setup"}

\* C39: until a shutdown clears it the pool list only grows: a release leaves the list
\* as it is, an acquire that found no free connection appends the connection for its
\* caller and schedules a replacement, and a replacement that completes appends one
\* more.
C39_PoolNeverShrinks ==
    [][/\ ~ShutdownReturns => PoolKept
       /\ \A i \in Slots :
             /\ (req[i].pc \in Releasing /\ req'[i] # req[i]) => pool' = pool
             /\ (req[i].pc = "a_create" /\ req'[i].pc = "a_meta")
                   => Len(pool') = Len(pool) + 1 /\ bg' = bg + 1
       /\ (bg' = bg - 1 /\ pool' # pool) => Len(pool') = Len(pool) + 1]_vars

\* Before any shutdown: an acquire found no free connection, its connection and the
\* replacement are in the pool, and the connection released since is still the
\* first of the list.
C39_Witness ==
    /\ teardown.calls = 0 /\ teardown.pc = "none"
    /\ Len(pool) = PoolSize + 2
    /\ bg = 0
    /\ Available(pool[1])
    /\ Available(pool[PoolSize + 2])
    /\ \E s \in Sessions : active_connections[s] = pool[PoolSize + 1]
    /\ \E r \in Runs : run[r].stopped_at # "none"

\* ------------------------------------------------------------ C40
\* The livestream loop of r is running for an active session.
LiveLoop(r) == run[r].video.is_live /\ run[r].is_active /\ Running(r)

\* C40: the frame a livestream loop compares its next frame with changes only by a
\* comparison of that loop: no frame sampled for another session and no stop of
\* another session replaces or clears it (stated for the steps taken while no frame
\* task waits to be started).
C40_BaselineOfOwnFrames ==
    [][\A r \in Runs :
          (LiveLoop(r) /\ last_frame = r /\ last_frame' # last_frame
              /\ \A q \in Runs : sched[q].pc # "created")
              => sched[r].pc = "compare"]_vars

====
